---- MODULE Spec2Model ----
(***************************************************************************)
(* Autosave controller of src/components/Editor.tsx.                        *)
(*                                                                         *)
(* The Editor component is a React function component.  What a render      *)
(* closes over is modelled explicitly: every time a dependency of the     *)
(* useMemo at Editor.tsx:340-378 changes (persist, blockId, version,       *)
(* numericMeeting) a new debounced saveToServer is built over the values   *)
(* of that render, and the effect at Editor.tsx:380-393 runs again: its    *)
(* cleanup flushes the previous debounce and its body subscribes one more  *)
(* throttled "update" handler (the cleanup never unsubscribes the old      *)
(* one).  One element of inst is one such (handler, debounce) pair.        *)
(*                                                                         *)
(* Time is abstracted to the order of timer firings.  Every editor update  *)
(* calls all subscribed handlers in the same tick, so the timers pending   *)
(* at any moment were armed by the same update: the throttles reach their  *)
(* 120 ms boundary together (Elapse120) and the debounce timers, armed at   *)
(* most 120 ms apart, fire together in subscription order (DebounceFire),  *)
(* after every trailing throttle call.  A render and its effects run to    *)
(* completion before the next timer or network event is handled.           *)
(*                                                                         *)
(* The recorder panel of src/components/RecorderPanel.tsx is a third group  *)
(* of variables with its own specification RecSpec: status, the recognizer, *)
(* the utterance buffer, the live-summary poller and the finalize runs.     *)
(*                                                                         *)
(* The local summarizer simpleSummarize is a pure function; SumSpec applies *)
(* it to every short text.  The meetingId effect of the workspace page      *)
(* src/app/(app)/ws/[id]/page.tsx is a fifth group of variables with its    *)
(* own specification BindSpec.                                              *)
(***************************************************************************)
EXTENDS Integers, Sequences, FiniteSets, TLC

\* ----------------------------------------------------------------- bounds
MaxEdits == 2      \* content changes of the editor in one run
MaxGen == 3        \* renders that rebuild saveToServer (elements of inst)
MaxFail == 1       \* remote calls the environment fails (404 / 405 / 5xx)
MaxUpdates == 3    \* editor updates in the timed model
MaxClicks == 2     \* clicks on the recorder's buttons
MaxResults == 2    \* result events of the recognizer
MaxErrors == 1     \* error events of the recognizer
MaxPolls == 2      \* firings of the live-summary interval timer
MaxRemoteFail == 1 \* remote calls of the recorder that fail
MaxMemos == 1      \* changes of the recorder's memo
MaxEvents == 3     \* clicks, results, errors, polls, failures and memo changes together
MaxLocalEvents == 4 \* the same without a meeting id, where no remote call is made
MaxLen == 6        \* characters of a text handed to simpleSummarize
MaxLines == 2      \* largest maxLines tried besides the default
MaxRuns == 3       \* runs of the page's meetingId effect
MaxBindFail == 1   \* remote calls of the page that fail
MaxClock == 4200   \* last instant (ms) of the timed model
Tick == 40         \* step (ms) of the clock inside a throttle interval

\* ------------------------------------------------------ program constants
Null == 0                  \* null of blockId / version / numericMeeting
MeetingId == 1             \* the numeric meeting id once it is known
DocBlockId == 1            \* the block id a numeric docId stands for
CreatedVersion == 1        \* version of a freshly created block
NoArgs == << >>            \* lastArgs = null of a debounce
ThrottleMs == 120          \* throttle(..., 120) of onUpdate
SAVE_DEBOUNCE_MS == 1000   \* wait of the debounced saveToServer
RestartMs == 500
PollMs == 180000
DefaultMaxLines == 6        \* maxLines = 6 of simpleSummarize
IdleMs == 2000             \* setTimeout(() => setSaveStatus("idle"), 2000)
FailStatus == {404, 405, 500}
StoredId == 1              \* the container id a stored binding or a numeric path names

\* The n-th content of the document: "", "a", "ab", "abb", ...
RECURSIVE Doc(_)
Doc(n) == IF n = 0 THEN "" ELSE IF n = 1 THEN "a" ELSE Doc(n - 1) \o "b"

VARIABLES
    persist,      \* prop persist
    meeting,      \* numericMeeting (Null when unknown)
    blockId,      \* useState blockId
    version,      \* useState version
    saveStatus,   \* useState saveStatus
    serverDown,   \* serverDownRef.current
    content,      \* editor.getHTML()
    nEdits,       \* content changes so far
    inst,         \* the (update handler, debounce) pairs, oldest first
    atts,         \* save attempts (runs of the debounced function), in firing order
    net,          \* requests and responses in flight
    srv,          \* the remote store: srv[id] = [ver, text]; ver = 0: no such block
    nFail,        \* remote calls failed so far
    burst,        \* history: the current burst of content changes
    vlog          \* history: vlog[id] = last version the controller stored for block id

vars == << persist, meeting, blockId, version, saveStatus, serverDown, content,
           nEdits, inst, atts, net, srv, nFail, burst, vlog >>

\* The timed model: one update handler (throttle, debounce, save indicator)
\* with the clock explicit and the remote store reduced to the outcome of a
\* save.  Timers fire at their deadline; a deadline of Null is no timer.
VARIABLES
    clock,        \* Date.now(), in ms
    thr,          \* throttle of onUpdate: last, tid (deadline), args of the latest call
    deb,          \* debounce of the save routine: t (deadline), lastArgs
    ind,          \* indicator: the value last passed to setSaveStatus, when it was
                  \* set, the pending 2 s timers, the saves running
    ed,           \* the editor: mounted, number of updates so far
    hist          \* history: calls of the throttled function (late: since fn last
                  \* ran), executions of fn (number, last instant and argument, all
                  \* at least ThrottleMs apart), runs of the save routine

tvars == << clock, thr, deb, ind, ed, hist >>

\* The timed model at mount.  The first interval of the throttle (last = 0)
\* is long over.
TimedStart ==
    /\ clock = ThrottleMs
    /\ thr = [last |-> 0, tid |-> Null, args |-> Null]
    /\ deb = [t |-> Null, lastArgs |-> NoArgs]
    /\ ind = [status |-> "idle", since |-> 0, timers |-> {}, running |-> 0]
    /\ ed = [mounted |-> TRUE, n |-> 0]
    /\ hist = [calls |-> 0, late |-> 0, fnN |-> 0, fnAt |-> 0, fnArg |-> Null,
               gapOK |-> TRUE, saves |-> 0, saveArg |-> ""]

\* The recorder panel (src/components/RecorderPanel.tsx): one mounted panel,
\* its recognizer, its live-summary poller and its finalize runs.
VARIABLES
    recStatus,    \* useState status: "rec" | "pause" | "processing"
    running,      \* runningRef.current
    recog,        \* recognitionRef.current (obj), the recognizer's state (st:
                  \* "off" | "on" | "ending"), pending 500 ms restart timers, the
                  \* e.error of the last error event, startedAtRef.current (anchor)
    finals,       \* finalsRef.current / finals: the utterance buffer
    partial,      \* useState partial
    poll,         \* live summary: interval timer, lastLiveIdxRef, liveHistory,
                  \* liveLatest, liveLoading, the number of live texts received
    jobs,         \* asynchronous work in flight, oldest first: finalize runs,
                  \* live fetches
    out,          \* what left the panel: onFinish results, onClose calls, chunks posted;
                  \* for every result how it came about (the steps of the remote
                  \* sequence that failed, what finalizeMeeting closed over)
    panel,        \* mounted, canCallApi, whether the browser has SpeechRecognition,
                  \* the getUserMedia promise of the mount effect, the time in
                  \* ms, memoText, summary
    budget        \* events so far: clicks, results, errors, polls, remote failures,
                  \* changes of the memo

rvars == << recStatus, running, recog, finals, partial, poll, jobs, out, panel, budget >>

\* The recorder at mount (line 118-137), canCallApi = api.
RecStart(api, sr) ==
    /\ recStatus = "rec"
    /\ running = FALSE
    /\ recog = [obj |-> FALSE, st |-> "off", timers |-> << >>, err |-> "", anchor |-> 0]
    /\ finals = << >>
    /\ partial = << >>
    /\ poll = [timer |-> Null, lastIdx |-> 0, history |-> << >>, latest |-> << >>,
               loading |-> FALSE, seen |-> 0, cuts |-> << >>]
    /\ jobs = << >>
    /\ out = [finished |-> << >>, how |-> << >>, closed |-> 0, chunks |-> << >>,
              inserted |-> << >>]
    /\ panel = [mounted |-> TRUE, api |-> api, sr |-> sr, mic |-> "pending", now |-> 0,
                memo |-> << >>, summary |-> << >>]
    /\ budget = [clicks |-> 0, results |-> 0, errors |-> 0, polls |-> 0, fails |-> 0,
                 memos |-> 0]

\* --------------------------------------------------------------- helpers
Last(s) == s[Len(s)]

\* One request or response.  kind: create | patch | reread | retry | init.
Msg(a, k, st, id, ver, html, status, cur) ==
    [att |-> a, kind |-> k, stage |-> st, id |-> id, ver |-> ver,
     html |-> html, status |-> status, cur |-> cur]

Req(a, k, id, ver, html) == Msg(a, k, "req", id, ver, html, 0, Null)

\* What one render closes over.
Closure == [cp |-> persist, cb |-> blockId, cv |-> version, cm |-> meeting]

ClosureOf(r) == [cp |-> r.cp, cb |-> r.cb, cv |-> r.cv, cm |-> r.cm]

NewInst(c) ==
    [cp |-> c.cp, cb |-> c.cb, cv |-> c.cv, cm |-> c.cm,
     open |-> TRUE,      \* throttle: last = 0, so the first call runs at once
     tid |-> FALSE,      \* throttle: trailing timer pending
     t |-> FALSE,        \* debounce: timer pending
     args |-> NoArgs]    \* debounce: lastArgs

\* A dependency of useMemo / of the effects changed since the last render.
NeedRender == ClosureOf(Last(inst)) # Closure

\* No throttle or debounce timer is pending.
Quiescent == \A i \in DOMAIN inst : ~inst[i].t /\ ~inst[i].tid

\* No save attempt and no initial read is in flight.
Idle == net = {} /\ \A a \in DOMAIN atts : atts[a].pc = "done"

\* ------------------------------------------------------ debounce, throttle
\* wrapped(...args) of debounce: remember the arguments, restart the timer.
DebounceCall(r, html) == [r EXCEPT !.args = << html >>, !.t = TRUE]

\* The throttled onUpdate called on an editor update whose content is html.
ThrottleCall(r, html) ==
    IF r.open
    THEN DebounceCall([r EXCEPT !.open = FALSE, !.tid = FALSE], html)
    ELSE [r EXCEPT !.tid = TRUE]

\* ------------------------------------------------------------ save routine
NewAttempt(html, id, ver, pc, res) ==
    [html |-> html, id |-> id, ver |-> ver, pc |-> pc, res |-> res,
     conflict |-> FALSE,   \* the first PATCH was rejected with 409
     cur409 |-> Null,      \* current version carried by that 409
     readVer |-> Null,     \* version returned by the recovery read
     retries |-> 0,        \* retry PATCHes issued
     retryVer |-> Null,    \* expected version of the retry PATCH
     gone |-> FALSE,       \* some call of the attempt failed with 404 / 405
     created |-> FALSE,    \* the attempt created its block
     remote |-> FALSE,     \* the attempt ended on a failed remote call
     id0 |-> blockId,      \* blockId / version when the attempt started
     ver0 |-> version]

\* Mutant of ShortCircuit: the latch is not consulted.
ShortCircuitNoLatch(c) == ~c.cp

\* Line 343: the debounced function returns at once.
ShortCircuit(c) == ~c.cp \/ serverDown

\* Mutant of EnsureStep: the meeting check is inverted, nothing is ever created.
EnsureStepNoCreate(c) ==
    IF c.cb # Null /\ c.cv # Null THEN "have" ELSE "nomeeting"

\* Mutant of EnsureStep: the meeting id is not checked before the create.
EnsureStepNoMeetingCheck(c) ==
    IF c.cb # Null /\ c.cv # Null THEN "have" ELSE "create"

\* ensureBlockId up to its first await.
EnsureStep(c) ==
    IF c.cb # Null /\ c.cv # Null THEN "have"
    ELSE IF c.cm = Null THEN "nomeeting"
    ELSE "create"

\* One run of the debounced function over closure c with argument html, up to
\* its first remote call, applied to S = [atts, net, status, burst].
RunSave(c, html, S) ==
    LET counted == [S.burst EXCEPT !.runs = @ + 1, !.last = html]
        a == Len(S.atts) + 1
    IN  IF ShortCircuit(c)
        THEN [S EXCEPT !.burst = [counted EXCEPT !.skipped = @ \/ (c.cp /\ serverDown)]]
        ELSE LET b == [counted EXCEPT !.started = @ + 1]
                 e == EnsureStep(c)
             IN  CASE e = "have" ->
                        [atts |-> Append(S.atts, NewAttempt(html, c.cb, c.cv, "patch", "")),
                         net |-> S.net \cup {Req(a, "patch", c.cb, c.cv, html)},
                         status |-> "saving", burst |-> b]
                   [] e = "nomeeting" ->
                        [atts |-> Append(S.atts, NewAttempt(html, Null, Null, "done", "error")),
                         net |-> S.net, status |-> "error", burst |-> b]
                   [] OTHER ->
                        [atts |-> Append(S.atts, NewAttempt(html, Null, Null, "create", "")),
                         net |-> S.net \cup {Req(a, "create", c.cm, Null, html)},
                         status |-> "saving", burst |-> b]

Cur == [atts |-> atts, net |-> net, status |-> saveStatus, burst |-> burst]

\* ---------------------------------------------------------- the summarizer
\* One call of simpleSummarize: its arguments and what it returned.
VARIABLES
    sumRaw,        \* the argument raw
    sumMaxLines,   \* the argument maxLines
    sumResult      \* [done, text]: the returned string once the call was made

svars == << sumRaw, sumMaxLines, sumResult >>

SumStart(raw, maxLines) ==
    /\ sumRaw = raw
    /\ sumMaxLines = maxLines
    /\ sumResult = [done |-> FALSE, text |-> << >>]

SumAtRest == SumStart(<< >>, DefaultMaxLines)

\* ------------------------------------------------------ the workspace page
\* The meetingId effect of src/app/(app)/ws/[id]/page.tsx for one document.
VARIABLES
    store,        \* localStorage["ws:doc2meeting"][docKey], Null when absent
    containers,   \* the meetings that exist on the server
    page,         \* [numeric, meetingId, mounted] of WorkspacePage
    runs,         \* the runs of the effect, in the order they started
    bindFails     \* failed remote calls of the page so far

bvars == << store, containers, page, runs, bindFails >>

\* The synchronous part of one run of the effect (line 59-156): the closure
\* flag aborted, the copy of the map and the first request.  posted and got
\* record what the run has requested and what its verification answered;
\* overlap records that the run before it was still in flight.
StartRun(numeric, st, overlap) ==
    IF numeric
    THEN [kind |-> "numeric", pc |-> "verify", map |-> Null, saved |-> StoredId,
          aborted |-> FALSE, got |-> "", posted |-> FALSE, overlap |-> overlap]
    ELSE IF st # Null
    THEN [kind |-> "doc", pc |-> "verify", map |-> st, saved |-> st,
          aborted |-> FALSE, got |-> "", posted |-> FALSE, overlap |-> overlap]
    ELSE [kind |-> "doc", pc |-> "create", map |-> st, saved |-> st,
          aborted |-> FALSE, got |-> "", posted |-> TRUE, overlap |-> overlap]

BindStart(numeric, st, exists) ==
    /\ store = st
    /\ containers = (IF exists THEN {StoredId} ELSE {})
    /\ page = [numeric |-> numeric, meetingId |-> Null, mounted |-> TRUE]
    /\ runs = << StartRun(numeric, st, FALSE) >>
    /\ bindFails = 0

BindAtRest == BindStart(TRUE, Null, TRUE)

\* ------------------------------------------------------------------ Init
InitSrv(numericDoc, v) ==
    IF numericDoc THEN << [ver |-> v, text |-> ""] >> ELSE << >>

Init ==
    \E numericDoc \in BOOLEAN, v \in {0, 1}, p \in BOOLEAN, m \in {Null, MeetingId} :
        /\ (~p => m = Null)
        /\ (~numericDoc => v = 0)
        /\ persist = p
        /\ meeting = m
        /\ blockId = (IF numericDoc THEN DocBlockId ELSE Null)
        /\ version = Null
        /\ saveStatus = "idle"
        /\ serverDown = FALSE
        /\ content = Doc(0)
        /\ nEdits = 0
        /\ inst = << NewInst([cp |-> p, cb |-> IF numericDoc THEN DocBlockId ELSE Null,
                              cv |-> Null, cm |-> m]) >>
        /\ atts = << >>
        /\ net = IF p /\ numericDoc
                 THEN {Req(0, "init", DocBlockId, Null, "")} ELSE {}
        /\ srv = InitSrv(numericDoc, v)
        /\ nFail = 0
        /\ burst = [n |-> 0, runs |-> 0, started |-> 0, last |-> "", clean |-> TRUE,
                    calm |-> TRUE, skipped |-> FALSE]
        /\ vlog = IF numericDoc THEN << 0 >> ELSE << >>
        /\ TimedStart
        /\ RecStart(TRUE, TRUE)
        /\ SumAtRest
        /\ BindAtRest

\* --------------------------------------------------------------- actions
\* The user changes the content: every subscribed handler is called.
Change ==
    /\ ~NeedRender
    /\ nEdits < MaxEdits
    /\ nEdits' = nEdits + 1
    /\ content' = Doc(nEdits + 1)
    /\ inst' = [i \in DOMAIN inst |-> ThrottleCall(inst[i], Doc(nEdits + 1))]
    /\ burst' = IF Quiescent
                THEN [n |-> 1, runs |-> 0, started |-> 0, last |-> "", clean |-> TRUE,
                      calm |-> burst.calm /\ Idle, skipped |-> burst.skipped]
                ELSE [burst EXCEPT !.n = @ + 1, !.clean = @ /\ burst.runs = 0,
                                   !.calm = FALSE]
    /\ UNCHANGED << persist, meeting, blockId, version, saveStatus, serverDown,
                    atts, net, srv, nFail, vlog >>

\* A throttle at its 120 ms boundary: a pending trailing call runs onUpdate,
\* which reads the content now (and restarts the interval); otherwise the
\* next call will run at once.
ThrottleBoundary(r) ==
    IF r.tid THEN DebounceCall([r EXCEPT !.tid = FALSE], content)
    ELSE [r EXCEPT !.open = TRUE]

\* 120 ms pass without an editor update.
Elapse120 ==
    /\ ~NeedRender
    /\ \E i \in DOMAIN inst : inst[i].tid \/ ~inst[i].open
    /\ inst' = [i \in DOMAIN inst |-> ThrottleBoundary(inst[i])]
    /\ UNCHANGED << persist, meeting, blockId, version, saveStatus, serverDown,
                    content, nEdits, atts, net, srv, nFail, burst, vlog >>

\* The timer callback of debounce r (lines 54-59), applied to S.
TimerRun(r, S) ==
    IF r.t /\ r.args # NoArgs THEN RunSave(ClosureOf(r), r.args[1], S) ELSE S

\* The pending debounce timers of inst[i..] fire, in subscription order.
RECURSIVE FireFrom(_, _)
FireFrom(i, S) ==
    IF i > Len(inst) THEN S ELSE FireFrom(i + 1, TimerRun(inst[i], S))

Fired(r) == [r EXCEPT !.t = FALSE, !.args = NoArgs, !.open = TRUE]

\* 1000 ms have passed since the last call of the debounced saveToServer.
DebounceFire ==
    /\ ~NeedRender
    /\ \E i \in DOMAIN inst : inst[i].t
    /\ \A i \in DOMAIN inst : ~inst[i].tid
    /\ LET S == FireFrom(1, Cur)
       IN  /\ atts' = S.atts
           /\ net' = S.net
           /\ saveStatus' = S.status
           /\ burst' = S.burst
    /\ inst' = [i \in DOMAIN inst |-> Fired(inst[i])]
    /\ UNCHANGED << persist, meeting, blockId, version, serverDown, content,
                    nEdits, srv, nFail, vlog >>

\* The parent re-renders the Editor with the meeting id it has obtained
\* (ws/[id]/page.tsx: meetingId, persist = !!meetingId).
PropsChange ==
    /\ ~NeedRender
    /\ meeting = Null
    /\ persist' = TRUE
    /\ meeting' = MeetingId
    /\ UNCHANGED << blockId, version, saveStatus, serverDown, content, nEdits,
                    inst, atts, net, srv, nFail, burst, vlog >>

\* flush() of debounce r, as called by the effect cleanup, applied to S.
Flush(r, S) ==
    IF r.t /\ r.args # NoArgs THEN RunSave(ClosureOf(r), r.args[1], S) ELSE S

Flushed(r) == IF r.t THEN [r EXCEPT !.t = FALSE, !.args = NoArgs] ELSE r

\* The initial-version effect (deps blockId, persist) of a render after old.
InitFetch(old) ==
    IF (old.cb # blockId \/ old.cp # persist) /\ persist /\ ~serverDown /\ blockId # Null
    THEN {Req(0, "init", blockId, Null, "")}
    ELSE {}

\* A render after a dependency changed: a new saveToServer is built, the
\* subscription effect's cleanup flushes the old one, its body subscribes a
\* new handler; the old handler stays subscribed.
Render ==
    /\ NeedRender
    /\ Len(inst) < MaxGen
    /\ LET old == Last(inst)
           S == Flush(old, Cur)
       IN  /\ atts' = S.atts
           /\ saveStatus' = S.status
           /\ burst' = S.burst
           /\ net' = S.net \cup InitFetch(old)
           /\ inst' = Append([inst EXCEPT ![Len(inst)] = Flushed(old)], NewInst(Closure))
    /\ UNCHANGED << persist, meeting, blockId, version, serverDown, content,
                    nEdits, srv, nFail, vlog >>

\* ------------------------------------------------------- the remote store
IsPatch(k) == k \in {"patch", "retry"}
IsGet(k) == k \in {"reread", "init"}

Resp(m, status, id, ver, cur) ==
    Msg(m.att, m.kind, "resp", id, ver, m.html, status, cur)

\* The store serves request m.
ServerHandle(m) ==
    /\ ~NeedRender
    /\ m \in net /\ m.stage = "req"
    /\ \/ /\ m.kind = "create"
          /\ srv' = Append(srv, [ver |-> CreatedVersion, text |-> m.html])
          /\ vlog' = Append(vlog, 0)
          /\ net' = (net \ {m}) \cup {Resp(m, 200, Len(srv) + 1, CreatedVersion, Null)}
       \/ /\ IsGet(m.kind)
          /\ net' = (net \ {m}) \cup
                {IF srv[m.id].ver = 0 THEN Resp(m, 404, m.id, Null, Null)
                 ELSE Resp(m, 200, m.id, srv[m.id].ver, Null)}
          /\ UNCHANGED << srv, vlog >>
       \/ /\ IsPatch(m.kind) /\ srv[m.id].ver = 0
          /\ net' = (net \ {m}) \cup {Resp(m, 404, m.id, Null, Null)}
          /\ UNCHANGED << srv, vlog >>
       \/ /\ IsPatch(m.kind) /\ srv[m.id].ver # 0 /\ m.ver = srv[m.id].ver
          /\ srv' = [srv EXCEPT ![m.id] = [ver |-> @.ver + 1, text |-> m.html]]
          /\ net' = (net \ {m}) \cup {Resp(m, 200, m.id, m.ver + 1, Null)}
          /\ UNCHANGED vlog
       \/ /\ IsPatch(m.kind) /\ srv[m.id].ver # 0 /\ m.ver # srv[m.id].ver
          /\ net' = (net \ {m}) \cup {Resp(m, 409, m.id, Null, srv[m.id].ver)}
          /\ UNCHANGED << srv, vlog >>
    /\ UNCHANGED << persist, meeting, blockId, version, saveStatus, serverDown,
                    content, nEdits, inst, atts, nFail, burst >>

\* Request m fails: the endpoint is missing (404 / 405) or the call breaks (5xx).
ServerFail(m, status) ==
    /\ ~NeedRender
    /\ m \in net /\ m.stage = "req"
    /\ nFail < MaxFail
    /\ nFail' = nFail + 1
    /\ net' = (net \ {m}) \cup {Resp(m, status, m.id, Null, Null)}
    /\ UNCHANGED << persist, meeting, blockId, version, saveStatus, serverDown,
                    content, nEdits, inst, atts, srv, burst, vlog >>

\* ------------------------------------------------ continuations of a save
\* Mutant of LatchOn: every failed call sets the latch.
LatchOnAny(status) == status # 200

\* 404 / 405 set the latch (lines 303, 331, 372).
LatchOn(status) == status \in {404, 405}

\* Line 369: after a failed recovery round the outer catch receives the
\* error of the first PATCH (the 409), not the error e2 of the recovery.
Rethrown(e2status) == 409

\* Mutant of StoredVersion: the version is assumed, not taken from the response.
StoredVersionAssumed(att, m) == att.ver + 1

\* Lines 351 / 361: the version stored after a successful PATCH.
StoredVersion(att, m) == m.ver

\* Mutant of RetryVersion: the retry repeats the stale expected version.
RetryVersionStale(att, m) == att.ver

\* Line 360: the expected version of the retry is the one just read.
RetryVersion(att, m) == m.ver

\* Mutant of RecoveryRequests: the read is not awaited, the retry goes out with it.
RecoveryNoAwait(a, att) ==
    {Req(a, "reread", att.id, Null, ""), Req(a, "retry", att.id, Null, att.html)}

\* Line 359: on a 409 the block is read again (and awaited) before the retry.
RecoveryRequests(a, att) == {Req(a, "reread", att.id, Null, "")}

\* Mutant of VersionAfterRead: the version read during recovery is stored.
VersionReadStored(att, m) == m.ver

\* Lines 359-360: the version read is used for the retry only, it is not stored.
VersionAfterRead(att, m) == version

Ended(att, res, status) ==
    [att EXCEPT !.pc = "done", !.res = res, !.remote = (res = "error"),
                !.gone = @ \/ status \in {404, 405}]

\* The response to the create call of ensureBlockId arrives.
DeliverCreate(m) ==
    /\ ~NeedRender
    /\ m \in net /\ m.stage = "resp" /\ m.kind = "create"
    /\ IF m.status = 200
       THEN /\ blockId' = m.id
            /\ version' = m.ver
            /\ vlog' = [vlog EXCEPT ![m.id] = m.ver]
            /\ atts' = [atts EXCEPT ![m.att] =
                          [@ EXCEPT !.id = m.id, !.ver = m.ver, !.pc = "patch",
                                    !.created = TRUE]]
            /\ net' = (net \ {m}) \cup {Req(m.att, "patch", m.id, m.ver, atts[m.att].html)}
            /\ UNCHANGED << saveStatus, serverDown >>
       ELSE /\ serverDown' = (serverDown \/ LatchOn(m.status))
            /\ saveStatus' = "error"
            /\ atts' = [atts EXCEPT ![m.att] = Ended(@, "error", m.status)]
            /\ net' = net \ {m}
            /\ UNCHANGED << blockId, version, vlog >>
    /\ UNCHANGED << persist, meeting, content, nEdits, inst, srv, nFail, burst >>

\* The response to the first PATCH arrives.
DeliverPatch(m) ==
    /\ ~NeedRender
    /\ m \in net /\ m.stage = "resp" /\ m.kind = "patch"
    /\ CASE m.status = 200 ->
              /\ version' = StoredVersion(atts[m.att], m)
              /\ vlog' = [vlog EXCEPT ![atts[m.att].id] = StoredVersion(atts[m.att], m)]
              /\ saveStatus' = "saved"
              /\ atts' = [atts EXCEPT ![m.att] = Ended(@, "saved", m.status)]
              /\ net' = net \ {m}
              /\ UNCHANGED serverDown
         [] m.status = 409 ->
              /\ atts' = [atts EXCEPT ![m.att] =
                            [@ EXCEPT !.pc = "reread", !.conflict = TRUE, !.cur409 = m.cur]]
              /\ net' = (net \ {m}) \cup RecoveryRequests(m.att, atts[m.att])
              /\ UNCHANGED << version, vlog, saveStatus, serverDown >>
         [] OTHER ->
              /\ serverDown' = (serverDown \/ LatchOn(m.status))
              /\ saveStatus' = "error"
              /\ atts' = [atts EXCEPT ![m.att] = Ended(@, "error", m.status)]
              /\ net' = net \ {m}
              /\ UNCHANGED << version, vlog >>
    /\ UNCHANGED << persist, meeting, blockId, content, nEdits, inst, srv, nFail,
                    burst >>

\* The response to the recovery read arrives.
DeliverReread(m) ==
    /\ ~NeedRender
    /\ m \in net /\ m.stage = "resp" /\ m.kind = "reread"
    /\ IF m.status = 200
       THEN /\ atts' = [atts EXCEPT ![m.att] =
                          [@ EXCEPT !.pc = "retry", !.readVer = m.ver,
                                    !.retries = @ + 1,
                                    !.retryVer = RetryVersion(atts[m.att], m)]]
            /\ net' = (net \ {m}) \cup
                  {Req(m.att, "retry", atts[m.att].id, RetryVersion(atts[m.att], m),
                       atts[m.att].html)}
            /\ version' = VersionAfterRead(atts[m.att], m)
            /\ UNCHANGED << saveStatus, serverDown >>
       ELSE /\ serverDown' = (serverDown \/ LatchOn(Rethrown(m.status)))
            /\ saveStatus' = "error"
            /\ atts' = [atts EXCEPT ![m.att] = Ended(@, "error", m.status)]
            /\ net' = net \ {m}
            /\ UNCHANGED version
    /\ UNCHANGED << persist, meeting, blockId, content, nEdits, inst, srv,
                    nFail, burst, vlog >>

\* The response to the retry PATCH arrives.
DeliverRetry(m) ==
    /\ ~NeedRender
    /\ m \in net /\ m.stage = "resp" /\ m.kind = "retry"
    /\ IF m.status = 200
       THEN /\ version' = StoredVersion(atts[m.att], m)
            /\ vlog' = [vlog EXCEPT ![atts[m.att].id] = StoredVersion(atts[m.att], m)]
            /\ saveStatus' = "saved"
            /\ atts' = [atts EXCEPT ![m.att] = Ended(@, "saved", m.status)]
            /\ UNCHANGED serverDown
       ELSE /\ serverDown' = (serverDown \/ LatchOn(Rethrown(m.status)))
            /\ saveStatus' = "error"
            /\ atts' = [atts EXCEPT ![m.att] = Ended(@, "error", m.status)]
            /\ UNCHANGED << version, vlog >>
    /\ net' = net \ {m}
    /\ UNCHANGED << persist, meeting, blockId, content, nEdits, inst, srv, nFail,
                    burst >>

\* The response to the initial-version read arrives.
DeliverInit(m) ==
    /\ ~NeedRender
    /\ m \in net /\ m.stage = "resp" /\ m.kind = "init"
    /\ IF m.status = 200
       THEN /\ version' = m.ver
            /\ vlog' = [vlog EXCEPT ![m.id] = m.ver]
            /\ UNCHANGED serverDown
       ELSE /\ serverDown' = (serverDown \/ LatchOn(m.status))
            /\ UNCHANGED << version, vlog >>
    /\ net' = net \ {m}
    /\ UNCHANGED << persist, meeting, blockId, saveStatus, content, nEdits, inst,
                    atts, srv, nFail, burst >>


\* ========================================================== the timed model
\* T = [thr, deb, ind, hist] is the state the utilities work on.
TCur == [thr |-> thr, deb |-> deb, ind |-> ind, hist |-> hist]

Log(h, op, arg) ==
    CASE op = "call" -> [h EXCEPT !.calls = @ + 1, !.late = @ + 1]
      [] op = "fn" -> [h EXCEPT !.fnN = @ + 1, !.fnAt = clock, !.fnArg = arg, !.late = 0,
                                !.gapOK = @ /\ (h.fnN = 0 \/ clock - h.fnAt >= ThrottleMs)]
      [] OTHER -> [h EXCEPT !.saves = @ + 1, !.saveArg = arg]

\* Lines 343-344: the save routine starts (persist is on, the latch is unset).
SaveStart(T, html) ==
    [T EXCEPT !.ind.status = "saving", !.ind.running = @ + 1,
              !.hist = Log(@, "save", html)]

\* Lines 51-60: wrapped(html) of debounce.
Wrapped(T, html) ==
    [T EXCEPT !.deb = [t |-> clock + SAVE_DEBOUNCE_MS, lastArgs |-> << html >>]]

\* Lines 383-387: onUpdate reads the content (n updates so far) and calls the
\* debounced saveToServer.
OnUpdate(T, n) == Wrapped(T, Doc(n))

\* Mutant of Throttled: the interval is not checked, every call runs fn.
ThrottledEager(T, k, n) ==
    OnUpdate([T EXCEPT !.thr = [last |-> clock, tid |-> Null, args |-> k],
                       !.hist = Log(Log(@, "call", k), "fn", k)], n)

\* Lines 31-45: the throttled function is called (k-th call).
Throttled(T, k, n) ==
    IF ThrottleMs - (clock - T.thr.last) <= 0
    THEN OnUpdate([T EXCEPT !.thr = [last |-> clock, tid |-> Null, args |-> k],
                            !.hist = Log(Log(@, "call", k), "fn", k)], n)
    ELSE [T EXCEPT !.thr.tid = clock + (ThrottleMs - (clock - T.thr.last)),
                   !.thr.args = k,
                   !.hist = Log(@, "call", k)]

\* Mutant of FlushT: the timer is not cancelled by flush.
FlushKeepsTimer(T) ==
    IF T.deb.t # Null /\ T.deb.lastArgs # NoArgs
    THEN SaveStart(T, T.deb.lastArgs[1])
    ELSE T

\* Lines 61-70: flush of debounce.
FlushT(T) ==
    IF T.deb.t # Null
    THEN IF T.deb.lastArgs # NoArgs
         THEN SaveStart([T EXCEPT !.deb = [t |-> Null, lastArgs |-> NoArgs]],
                        T.deb.lastArgs[1])
         ELSE [T EXCEPT !.deb.t = Null]
    ELSE T

Apply(T) ==
    /\ thr' = T.thr
    /\ deb' = T.deb
    /\ ind' = T.ind
    /\ hist' = T.hist

\* Deadlines of the pending timers.
Deadlines == ({thr.tid, deb.t} \ {Null}) \cup ind.timers

\* The editor emits an update.
Update ==
    /\ ed.mounted /\ ed.n < MaxUpdates
    /\ ed' = [ed EXCEPT !.n = @ + 1]
    /\ Apply(Throttled(TCur, ed.n + 1, ed.n + 1))
    /\ UNCHANGED clock

\* Lines 40-43: the trailing timer of the throttle fires.  After the teardown
\* the editor is destroyed: reading its content either works or throws, and
\* onUpdate swallows what is thrown.
ThrottleTimer ==
    /\ thr.tid # Null /\ thr.tid <= clock
    /\ LET T == [TCur EXCEPT !.thr.last = clock, !.thr.tid = Null,
                             !.hist = Log(@, "fn", thr.args)]
       IN  \/ Apply(OnUpdate(T, ed.n))
           \/ ~ed.mounted /\ Apply(T)
    /\ UNCHANGED << clock, ed >>

\* Lines 54-59: the timer of the debounce fires.
DebounceTimer ==
    /\ deb.t # Null /\ deb.t <= clock
    /\ LET T == [TCur EXCEPT !.deb = [t |-> Null, lastArgs |-> NoArgs]]
       IN  Apply(IF deb.lastArgs # NoArgs THEN SaveStart(T, deb.lastArgs[1]) ELSE T)
    /\ UNCHANGED << clock, ed >>

\* Line 373: a save ends with an error.
OnError(i) == [i EXCEPT !.status = "error", !.since = clock, !.running = @ - 1]

\* Lines 352-354 / 362-363: a save ends saved.
OnSaved(i) ==
    [i EXCEPT !.status = "saved", !.since = clock, !.running = @ - 1,
              !.timers = @ \cup {clock + IdleMs}]

\* A running save ends, saved or with an error.
SaveEnds(ok) ==
    /\ ind.running > 0
    /\ ind' = IF ok THEN OnSaved(ind) ELSE OnError(ind)
    /\ UNCHANGED << clock, thr, deb, ed, hist >>

\* Lines 354 / 363: a 2 s timer fires.
IdleTimer ==
    /\ \E d \in ind.timers :
          /\ d <= clock
          /\ ind' = [ind EXCEPT !.status = "idle", !.timers = @ \ {d}]
    /\ UNCHANGED << clock, thr, deb, ed, hist >>

\* Lines 390-392: the Editor is unmounted, the cleanup of the effect flushes.
Teardown ==
    /\ ed.mounted
    /\ ed' = [ed EXCEPT !.mounted = FALSE]
    /\ Apply(FlushT(TCur))
    /\ UNCHANGED clock

\* The steps of the clock: a tick inside the throttle interval, the time to
\* a deadline, a quiet second.
Steps ==
    (IF clock - thr.last < ThrottleMs THEN {Tick} ELSE {})
        \cup {x - clock : x \in Deadlines} \cup {SAVE_DEBOUNCE_MS}

\* Time passes, up to the next deadline at most.
Advance(d) ==
    /\ d > 0 /\ clock + d <= MaxClock
    /\ \A x \in Deadlines : clock + d <= x
    /\ clock' = clock + d
    /\ UNCHANGED << thr, deb, ind, ed, hist >>

\* ============================================================ the recorder
\* A text is a sequence of characters; the recognizer's words are made of
\* "a" and "b", " " and "\n" are white space.
White == {" ", "\n"}

\* String.prototype.trim
RECURSIVE TrimLeft(_)
TrimLeft(t) == IF t # << >> /\ Head(t) \in White THEN TrimLeft(Tail(t)) ELSE t

RECURSIVE TrimRight(_)
TrimRight(t) ==
    IF t # << >> /\ t[Len(t)] \in White THEN TrimRight(SubSeq(t, 1, Len(t) - 1)) ELSE t

Trim(t) == TrimRight(TrimLeft(t))

\* Array.prototype.join
RECURSIVE Join(_, _)
Join(ts, sep) ==
    IF ts = << >> THEN << >>
    ELSE IF Len(ts) = 1 THEN ts[1]
    ELSE ts[1] \o sep \o Join(Tail(ts), sep)

\* raw.replace(/\s+/g, " ")
RECURSIVE Squeeze(_)
Squeeze(t) ==
    IF t = << >> THEN << >>
    ELSE IF Head(t) \in White
         THEN << " " >> \o Squeeze(TrimLeft(t))
         ELSE << Head(t) >> \o Squeeze(Tail(t))

\* ------------------------------------------------------- simpleSummarize
\* Character classes of the regular expressions of line 69-105.  Deung stands
\* for the Hangul syllable U+B4F1, which is a stop word by itself.
Deung == "deung"
Upper == {"A", "B"}
Kept == {"a", "b", " ", Deung} \cup Upper      \* [0-9A-Za-z Hangul and space]
Enders == {".", "!", "?", ")"}                 \* the look-behind of the split
Stop == { << Deung >> }                        \* the stop words over these characters

\* String.prototype.toLowerCase, character by character
Lower(c) == IF c = "A" THEN "a" ELSE IF c = "B" THEN "b" ELSE c
LowerWord(w) == [i \in DOMAIN w |-> Lower(w[i])]

\* txt.split(/(?<=[.!?...]|[Hangul]\)|\))\s+|(?<=\.)\s+/g): a run of white
\* space is a separator when the character before it ends a sentence.
RECURSIVE SplitSentences(_, _)
SplitSentences(t, cur) ==
    IF t = << >> THEN << cur >>
    ELSE IF Head(t) \in White /\ cur # << >> /\ cur[Len(cur)] \in Enders
         THEN << cur >> \o SplitSentences(TrimLeft(t), << >>)
         ELSE SplitSentences(Tail(t), Append(cur, Head(t)))

\* .map((s) => s.trim()).filter(Boolean)
Sentences(txt) ==
    LET parts == SplitSentences(txt, << >>)
        trimmed == [i \in DOMAIN parts |-> Trim(parts[i])]
    IN  SelectSeq(trimmed, LAMBDA s : s # << >>)

\* String.prototype.split(/\s+/)
RECURSIVE SplitWords(_, _)
SplitWords(t, cur) ==
    IF t = << >> THEN << cur >>
    ELSE IF Head(t) \in White
         THEN << cur >> \o SplitWords(TrimLeft(t), << >>)
         ELSE SplitWords(Tail(t), Append(cur, Head(t)))

\* The keys the two loops of line 82-88 and 93-97 count for one sentence:
\* the words of the sentence stripped of every other character, lower-cased,
\* without the empty word and the stop words.
Keys(s) ==
    LET stripped == SelectSeq(s, LAMBDA c : c \in Kept)
        words == SplitWords(stripped, << >>)
        lowered == [i \in DOMAIN words |-> LowerWord(words[i])]
    IN  SelectSeq(lowered, LAMBDA k : k # << >> /\ k \notin Stop)

RECURSIVE CountIn(_, _)
CountIn(ks, k) ==
    IF ks = << >> THEN 0
    ELSE (IF Head(ks) = k THEN 1 ELSE 0) + CountIn(Tail(ks), k)

\* freq.get(k) || 0 after the loop of line 82-88
RECURSIVE Freq(_, _)
Freq(sents, k) ==
    IF sents = << >> THEN 0
    ELSE CountIn(Keys(Head(sents)), k) + Freq(Tail(sents), k)

RECURSIVE SumFreq(_, _)
SumFreq(sents, ks) ==
    IF ks = << >> THEN 0
    ELSE Freq(sents, Head(ks)) + SumFreq(sents, Tail(ks))

\* line 91-99
Scored(sents) ==
    [i \in DOMAIN sents |-> [s |-> sents[i], sc |-> SumFreq(sents, Keys(sents[i]))]]

\* scored.sort((a, b) => b.sc - a.sc): Array.prototype.sort is stable, an
\* element goes behind the elements of the same or a higher score before it.
RECURSIVE InsertByScore(_, _)
InsertByScore(sorted, x) ==
    IF sorted = << >> THEN << x >>
    ELSE IF Head(sorted).sc >= x.sc
         THEN << Head(sorted) >> \o InsertByScore(Tail(sorted), x)
         ELSE << x >> \o sorted

Unsorted(scored) == scored

RECURSIVE SortByScore(_)
SortByScore(scored) ==
    IF scored = << >> THEN << >>
    ELSE InsertByScore(SortByScore(SubSeq(scored, 1, Len(scored) - 1)),
                       scored[Len(scored)])

\* simpleSummarize(raw, maxLines) for maxLines >= 0
simpleSummarize(raw, maxLines) ==
    LET txt == Trim(Squeeze(raw))
        sents == Sentences(txt)
        sorted == SortByScore(Scored(sents))
        n == IF maxLines < Len(sorted) THEN maxLines ELSE Len(sorted)
        top == [i \in 1..n |-> << "-", " " >> \o sorted[i].s]
    IN  IF txt = << >> THEN << >> ELSE Join(top, << "\n" >>)

\* What a result event carries from event.resultIndex on: alternatives with a
\* flag isFinal and a transcript.
Interim(t) == [isFinal |-> FALSE, transcript |-> t]
Final(t) == [isFinal |-> TRUE, transcript |-> t]
Batches ==
    { << Interim(<< "a" >>) >>,
      << Final(<< " ", "a" >>) >>,
      << Final(<< "a" >>), Interim(<< "a" >>), Final(<< "b", " " >>) >> }

Memos == { << >>, << "a" >> }

RecoverableErrors == {"aborted", "no-speech", "audio-capture"}
RecErrors == RecoverableErrors \cup {"not-allowed", "network"}

\* The summary of a body of GET minutes/live or GET minutes/final: the text
\* found in it, trimmed (line 55-66).
composeSummaryTextFromServer(j) == Trim(j)

\* Summary texts in the bodies of GET minutes/live; bodies of GET
\* minutes/final after composeSummaryTextFromServer / toOneBlockText.
LiveBodies == { << >>, << "a" >>, << "a", "\n" >>, << "b" >> }
NoBody == [summary |-> << >>, transcript |-> << >>]

FinalBodies == { NoBody, [summary |-> << "a", "\n" >>, transcript |-> << "b" >>] }

\* rec.start(): starts a recognizer that is off, throws (caught at every call
\* site) on one that is started or still stopping.
RecStarted(r) == IF r.st = "off" THEN [r EXCEPT !.st = "on"] ELSE r

RecStoppedNever(r) == r

\* rec.stop(): a started recognizer delivers its end event later.
RecStopped(r) == IF r.obj /\ r.st = "on" THEN [r EXCEPT !.st = "ending"] ELSE r

\* The environment may cause one more event of a kind.
Spent ==
    budget.clicks + budget.results + budget.errors + budget.polls + budget.fails
        + budget.memos

EventLimit == IF panel.api THEN MaxEvents ELSE MaxLocalEvents

May(kind, max) == budget[kind] < max /\ Spent < EventLimit

\* setState of a component that is unmounted has no effect.
SetState(old, new) == IF panel.mounted THEN new ELSE old

\* The label of line 326 for an empty summary.
NothingNew == << "(nothing new)" >>

\* stopLivePolling (line 347-352)
StopLivePollingNever(p) == p

StopLivePolling(p) == [p EXCEPT !.timer = Null]

\* makeLocalLiveSummary (line 321-332); cuts records the segments each call
\* took as its input.
MakeLocalLiveSummaryAgain(p, f) ==
    IF f = << >> THEN p
    ELSE [p EXCEPT !.cuts = Append(@, [from |-> 1, to |-> Len(f)]),
                   !.history = SetState(@, Append(@, NothingNew))]

MakeLocalLiveSummary(p, f) ==
    LET slice == SubSeq(f, p.lastIdx + 1, Len(f))
        text == Join(slice, << " " >>)
        sum == simpleSummarize(text, DefaultMaxLines)
        shown == IF sum = << >> THEN NothingNew ELSE sum
    IN  IF slice = << >> THEN p
        ELSE [p EXCEPT !.lastIdx = Len(f),
                       !.cuts = Append(@, [from |-> p.lastIdx + 1, to |-> Len(f)]),
                       !.latest = SetState(@, shown),
                       !.history = SetState(@, Append(@, shown))]

\* One cycle of the poller (line 337-338, 342-343): a fetch in remote mode,
\* a local summary otherwise.
PollCycle(p, f) ==
    IF panel.api THEN [p EXCEPT !.loading = SetState(@, TRUE)]
    ELSE MakeLocalLiveSummary(p, f)

LiveFetch == IF panel.api THEN << [kind |-> "live"] >> ELSE << >>

\* The calls in flight without the i-th.
Without(js, i) == SubSeq(js, 1, i - 1) \o SubSeq(js, i + 1, Len(js))

StartLivePollingLater(p, f) == [StopLivePolling(p) EXCEPT !.timer = panel.now + PollMs]

\* startLivePolling (line 334-345)
StartLivePolling(p, f) ==
    [PollCycle(StopLivePolling(p), f) EXCEPT !.timer = panel.now + PollMs]

\* The local branch of finalizeMeeting (line 207-215) over the finals of the
\* render whose handler runs.
LocalResultNoSummary(snap) ==
    [audioUrl |-> << >>, transcript |-> Join(snap.finals, << "\n" >>),
     summary |-> << >>, notes |-> snap.memo]

LocalResult(snap) ==
    LET transcript == Join(snap.finals, << "\n" >>)
    IN  [audioUrl |-> << >>, transcript |-> transcript,
         summary |-> simpleSummarize(transcript, DefaultMaxLines), notes |-> snap.memo]

\* The remote branch (line 190-198) for a body of GET minutes/final.
RemoteResult(snap, j) ==
    [audioUrl |-> << >>,
     transcript |-> IF j.transcript # << >> THEN j.transcript
                    ELSE Join(snap.finals, << "\n" >>),
     summary |-> IF composeSummaryTextFromServer(j.summary) # << >>
                 THEN composeSummaryTextFromServer(j.summary) ELSE snap.summary,
     notes |-> snap.memo]

\* What the handlers of a render close over.
Snapshot == [finals |-> finals, memo |-> panel.memo, summary |-> panel.summary]

\* ------------------------------------------------- actions of the recorder
\* getUserMedia resolves (line 360-365): unless the effect was cancelled,
\* startRecognition (line 219-291) and startLivePolling.
MicGranted ==
    /\ panel.mic = "pending"
    /\ panel' = [panel EXCEPT !.mic = "granted"]
    /\ IF panel.mounted
       THEN /\ IF panel.sr
               THEN /\ recog' = [obj |-> TRUE, st |-> "on", timers |-> << >>, err |-> "",
                              anchor |-> panel.now]
                    /\ running' = TRUE
                    /\ recStatus' = "rec"
               ELSE UNCHANGED << recog, running, recStatus >>
            /\ poll' = StartLivePolling(poll, finals)
            /\ jobs' = jobs \o LiveFetch
       ELSE UNCHANGED << recog, running, recStatus, poll, jobs >>
    /\ UNCHANGED << finals, partial, out, budget >>

\* getUserMedia rejects (line 366-369).
MicDenied ==
    /\ panel.mic = "pending"
    /\ panel' = [panel EXCEPT !.mic = "denied"]
    /\ recStatus' = SetState(recStatus, "pause")
    /\ UNCHANGED << running, recog, finals, partial, poll, jobs, out, budget >>

\* handlePauseOrResume (line 383-399)
HandlePauseOrResume ==
    /\ panel.mounted
    /\ May("clicks", MaxClicks)
    /\ budget' = [budget EXCEPT !.clicks = @ + 1]
    /\ IF ~recog.obj
       THEN UNCHANGED << recStatus, running, recog, poll, jobs >>
       ELSE IF recStatus = "rec"
       THEN /\ running' = FALSE
            /\ recog' = RecStopped(recog)
            /\ poll' = StopLivePolling(poll)
            /\ recStatus' = "pause"
            /\ UNCHANGED jobs
       ELSE /\ running' = TRUE
            /\ recog' = RecStarted([recog EXCEPT !.anchor = panel.now])
            /\ poll' = StartLivePolling(poll, finals)
            /\ jobs' = jobs \o LiveFetch
            /\ recStatus' = "rec"
    /\ UNCHANGED << finals, partial, out, panel >>

\* The field f of the object p, the empty text when p has no such field.
Field(p, f) == IF f \in DOMAIN p THEN p[f] ELSE << >>

\* The onFinish the Editor passes to the panel (Editor.tsx 453-475): what it
\* inserts into the document, a summary section when p.summary is not blank
\* and a memo section when p.memo is not blank.
OnFinishInsert(p) ==
    LET memoText == Field(p, "memo")
    IN  [summary |-> IF Trim(p.summary) # << >> THEN p.summary ELSE << >>,
         memo |-> IF Trim(memoText) # << >> THEN memoText ELSE << >>]

\* The end of handleStop / handleClose after finalizeMeeting has called
\* onFinish(res): setSummary, setStatus("pause") and, for handleClose, onClose.
Finished(res, close, how) ==
    /\ out' = [out EXCEPT !.finished = Append(@, res),
                          !.inserted = Append(@, OnFinishInsert(res)),
                          !.how = Append(@, how),
                          !.closed = IF close THEN @ + 1 ELSE @]
    /\ panel' = [panel EXCEPT !.summary = SetState(@, res.summary)]
    /\ recStatus' = SetState(recStatus, "pause")

\* handleStop (line 401-408) and handleClose (line 410-413) up to the first
\* await that leaves the event: in remote mode the POST of finalizeMeeting, in
\* local mode nothing, the handler runs to its end.
HandleStop(close) ==
    /\ panel.mounted
    /\ May("clicks", MaxClicks)
    /\ budget' = [budget EXCEPT !.clicks = @ + 1]
    /\ running' = FALSE
    /\ poll' = StopLivePolling(poll)
    /\ recog' = RecStopped(recog)
    /\ IF panel.api
       THEN /\ recStatus' = "processing"
            /\ jobs' = Append(jobs, [kind |-> "finalize", pc |-> "post",
                                     snap |-> Snapshot, close |-> close,
                                     failed |-> {}])
            /\ UNCHANGED << out, panel >>
       ELSE /\ Finished(LocalResult(Snapshot), close,
                        [failed |-> {}, snap |-> Snapshot])
            /\ UNCHANGED jobs
    /\ UNCHANGED << finals, partial >>

\* POST minutes/finalize answers (line 172-179): an http error is only logged,
\* a rejected fetch falls back to the local branch.
FinalizePosted(i, outcome) ==
    /\ jobs[i].kind = "finalize" /\ jobs[i].pc = "post"
    /\ outcome # "ok" => May("fails", MaxRemoteFail)
    /\ budget' = [budget EXCEPT !.fails = IF outcome = "ok" THEN @ ELSE @ + 1]
    /\ IF outcome = "throw"
       THEN /\ Finished(LocalResult(jobs[i].snap), jobs[i].close,
                        [failed |-> {"post"}, snap |-> jobs[i].snap])
            /\ jobs' = Without(jobs, i)
       ELSE /\ jobs' = [jobs EXCEPT ![i].pc = "get",
                                    ![i].failed = IF outcome = "ok" THEN @ ELSE {"post"}]
            /\ UNCHANGED << out, panel, recStatus >>
    /\ UNCHANGED << running, recog, finals, partial, poll >>

\* GET minutes/final answers with a body (line 181-200), answers non-2xx
\* with a body that has no summary and no transcript (the error is only
\* logged, line 186-188), or the fetch is rejected (line 201-215).
FinalizeGot(i, body, outcome) ==
    /\ jobs[i].kind = "finalize" /\ jobs[i].pc = "get"
    /\ outcome # "ok" => (May("fails", MaxRemoteFail) /\ body = NoBody)
    /\ budget' = [budget EXCEPT !.fails = IF outcome = "ok" THEN @ ELSE @ + 1]
    /\ Finished(IF outcome = "throw" THEN LocalResult(jobs[i].snap)
                ELSE RemoteResult(jobs[i].snap, body),
                jobs[i].close,
                [failed |-> jobs[i].failed \cup (IF outcome = "ok" THEN {} ELSE {"get"}),
                 snap |-> jobs[i].snap])
    /\ jobs' = Without(jobs, i)
    /\ UNCHANGED << running, recog, finals, partial, poll >>

\* rec.onresult (line 236-261): the finals after a batch.
FinalsBatch(batch) ==
    LET F[i \in 0..Len(batch)] ==
            IF i = 0 THEN << >>
            ELSE IF batch[i].isFinal THEN Append(F[i - 1], Trim(batch[i].transcript))
            ELSE F[i - 1]
    IN  F[Len(batch)]

InterimOf(batch) ==
    LET I[i \in 0..Len(batch)] ==
            IF i = 0 THEN << >>
            ELSE IF batch[i].isFinal THEN I[i - 1]
            ELSE I[i - 1] \o batch[i].transcript
    IN  I[Len(batch)]

OnResultFinalsEach(f, batch) == f \o FinalsBatch(batch)

OnResultFinals(f, batch) ==
    IF FinalsBatch(batch) # << >>
    THEN Append(f, Join(FinalsBatch(batch), << " " >>))
    ELSE f

RecResult(batch) ==
    /\ recog.st \in {"on", "ending"}
    /\ May("results", MaxResults)
    /\ budget' = [budget EXCEPT !.results = @ + 1]
    /\ partial' = SetState(partial, IF FinalsBatch(batch) # << >> THEN << >>
                                    ELSE InterimOf(batch))
    /\ finals' = OnResultFinals(finals, batch)
    /\ out' = IF panel.api /\ FinalsBatch(batch) # << >>
              THEN [out EXCEPT !.chunks =
                        Append(@, [text |-> Join(FinalsBatch(batch), << " " >>),
                                   start_ms |-> recog.anchor, end_ms |-> panel.now])]
              ELSE out
    /\ recog' = IF FinalsBatch(batch) # << >> THEN [recog EXCEPT !.anchor = panel.now]
                ELSE recog
    /\ UNCHANGED << recStatus, running, poll, jobs, panel >>

\* rec.onerror (line 263-277); the recognizer ends after an error.
DeniedNever(e) == FALSE

\* e?.error === "not-allowed" (line 265)
Denied(e) == e = "not-allowed"

RestartsNoSpeech(e, run) == run /\ e = "no-speech"

Restarts(e, run) == run /\ e \in RecoverableErrors

RecError(e) ==
    /\ recog.st = "on"
    /\ May("errors", MaxErrors)
    /\ budget' = [budget EXCEPT !.errors = @ + 1]
    /\ IF Denied(e)
       THEN /\ running' = FALSE
            /\ recStatus' = SetState(recStatus, "pause")
            /\ recog' = [recog EXCEPT !.st = "ending", !.err = e]
       ELSE /\ recog' = [recog EXCEPT
                            !.st = "ending", !.err = e,
                            !.timers = IF Restarts(e, running)
                                       THEN Append(@, panel.now + RestartMs) ELSE @]
            /\ UNCHANGED << running, recStatus >>
    /\ UNCHANGED << finals, partial, poll, jobs, out, panel >>

\* rec.onend (line 279-283): after stop(), after an error, or when the
\* recognizer ends by itself.
RecEnd ==
    /\ recog.st \in {"on", "ending"}
    /\ recog' = IF running THEN [recog EXCEPT !.st = "on"]
                ELSE [recog EXCEPT !.st = "off"]
    /\ UNCHANGED << recStatus, running, finals, partial, poll, jobs, out, panel, budget >>

\* The callback of the timer of line 273-275.
RestartTimer ==
    /\ recog.timers # << >>
    /\ Head(recog.timers) = panel.now
    /\ recog' = [RecStarted(recog) EXCEPT !.timers = Tail(@)]
    /\ UNCHANGED << recStatus, running, finals, partial, poll, jobs, out, panel, budget >>

\* The callback of setInterval (line 341-344).
PollTimer ==
    /\ poll.timer # Null
    /\ poll.timer = panel.now
    /\ May("polls", MaxPolls)
    /\ budget' = [budget EXCEPT !.polls = @ + 1]
    /\ poll' = [PollCycle(poll, finals) EXCEPT !.timer = panel.now + PollMs]
    /\ jobs' = jobs \o LiveFetch
    /\ UNCHANGED << recStatus, running, recog, finals, partial, out, panel >>

\* GET minutes/live answers (line 298-318).
LiveHistoryAlways(h, text) == Append(h, text)

LiveHistory(h, text) ==
    IF h # << >> /\ Trim(h[Len(h)]) = Trim(text) THEN h ELSE Append(h, text)

\* The fetch is rejected (thrown) or answers with a body; a body without a
\* summary, as that of a non-2xx answer, gives the empty text.
LiveAnswered(i, body, thrown) ==
    /\ jobs[i].kind = "live"
    /\ thrown => May("fails", MaxRemoteFail)
    /\ budget' = [budget EXCEPT !.fails = IF thrown THEN @ + 1 ELSE @]
    /\ jobs' = Without(jobs, i)
    /\ LET text == composeSummaryTextFromServer(body)
       IN  poll' = IF thrown \/ text = << >>
                   THEN [poll EXCEPT !.loading = SetState(@, FALSE)]
                   ELSE [poll EXCEPT !.loading = SetState(@, FALSE),
                                     !.latest = SetState(@, text),
                                     !.history = SetState(@, LiveHistory(@, text)),
                                     !.seen = SetState(@, @ + 1)]
    /\ UNCHANGED << recStatus, running, recog, finals, partial, out, panel >>

\* What the live-summary card shows (line 505-512): the latest snapshot, or
\* the line that the first summary is awaited.
WaitingFirst == << "(waiting)" >>

LiveShown(p) == IF p.latest # << >> THEN p.latest ELSE WaitingFirst

\* The memo area (line 476).
MemoChange(t) ==
    /\ panel.mounted
    /\ panel.memo # t
    /\ May("memos", MaxMemos)
    /\ budget' = [budget EXCEPT !.memos = @ + 1]
    /\ panel' = [panel EXCEPT !.memo = t]
    /\ UNCHANGED << recStatus, running, recog, finals, partial, poll, jobs, out >>

\* The panel is unmounted: the cleanup of the mount effect (line 372-378).
Unmount ==
    /\ panel.mounted
    /\ panel' = [panel EXCEPT !.mounted = FALSE]
    /\ running' = FALSE
    /\ recog' = [RecStopped(recog) EXCEPT !.obj = FALSE]
    /\ poll' = StopLivePolling(poll)
    /\ UNCHANGED << recStatus, finals, partial, jobs, out, budget >>

\* Time passes up to the next deadline.
RecDeadlines ==
    (IF recog.timers = << >> THEN {} ELSE {Head(recog.timers)})
        \cup (IF poll.timer = Null THEN {} ELSE {poll.timer})

RecSteps ==
    {d - panel.now : d \in {x \in RecDeadlines : x > panel.now}}

RecAdvance(d) ==
    /\ d > 0
    /\ \A x \in RecDeadlines : panel.now + d <= x
    /\ panel' = [panel EXCEPT !.now = @ + d]
    /\ UNCHANGED << recStatus, running, recog, finals, partial, poll, jobs, out, budget >>

\* ====================================================== the workspace page
\* setMeetingId behind "if (!aborted)"
Adopt(r, id) == IF r.aborted THEN page ELSE [page EXCEPT !.meetingId = id]

\* What the server can answer to GET meetings/{id}: 200 when the meeting
\* exists, 404 when it does not, and within the failure budget another
\* status or no answer at all.
VerifyOutcomes(r) ==
    (IF r.saved \in containers THEN {"ok"} ELSE {"404"})
        \cup (IF bindFails < MaxBindFail THEN {"500", "throw"} ELSE {})

CreateOutcomes ==
    {"ok"} \cup (IF bindFails < MaxBindFail THEN {"http", "invalid", "throw"} ELSE {})

Failed(o) == IF o \in {"ok", "404"} THEN bindFails ELSE bindFails + 1

\* The id the server gives the next meeting it creates.
FreshId == StoredId + 1 + Cardinality(containers \ {StoredId})

\* "delete map[docKey]" of line 88
EvictNever(r) == r

Evict(r) == [r EXCEPT !.map = Null]

\* The dependencies of the effect change (crumb.title is set by the
\* breadcrumb effect, line 36-53): the cleanup of the last run sets its
\* aborted and the effect runs again.
AbortLast(rs) == [rs EXCEPT ![Len(rs)].aborted = TRUE]

EffectRerun ==
    /\ page.mounted
    /\ Len(runs) < MaxRuns
    /\ runs' = Append(AbortLast(runs),
                      StartRun(page.numeric, store, runs[Len(runs)].pc # "done"))
    /\ UNCHANGED << store, containers, page, bindFails >>

PageUnmount ==
    /\ page.mounted
    /\ page' = [page EXCEPT !.mounted = FALSE]
    /\ runs' = AbortLast(runs)
    /\ UNCHANGED << store, containers, bindFails >>

\* ensureMeetingForDoc, line 76-95: the answer to the verification of the
\* stored binding.  Every answer but 200 goes on to the create request.
DocVerified(i, o) ==
    LET r == runs[i] IN
    /\ r.kind = "doc" /\ r.pc = "verify"
    /\ o \in VerifyOutcomes(r)
    /\ bindFails' = Failed(o)
    /\ UNCHANGED containers
    /\ IF o = "ok"
       THEN /\ page' = Adopt(r, r.saved)
            /\ runs' = [runs EXCEPT ![i] = [r EXCEPT !.pc = "done", !.got = o]]
            /\ UNCHANGED store
       ELSE IF o = "404"
       THEN /\ store' = Evict(r).map
            /\ runs' = [runs EXCEPT ![i] =
                          [Evict(r) EXCEPT !.pc = "create", !.got = o, !.posted = TRUE]]
            /\ UNCHANGED page
       ELSE /\ runs' = [runs EXCEPT ![i] =
                          [r EXCEPT !.pc = "create", !.got = o, !.posted = TRUE]]
            /\ UNCHANGED << store, page >>

\* ensureMeetingForDoc, line 98-129: the answer to POST meetings.
DocCreated(i, o) ==
    LET r == runs[i] IN
    /\ r.kind = "doc" /\ r.pc = "create"
    /\ o \in CreateOutcomes
    /\ bindFails' = Failed(o)
    /\ IF o = "ok"
       THEN /\ containers' = containers \cup {FreshId}
            /\ store' = FreshId
            /\ page' = Adopt(r, FreshId)
            /\ runs' = [runs EXCEPT ![i] = [r EXCEPT !.pc = "done", !.map = FreshId]]
       ELSE /\ runs' = [runs EXCEPT ![i] = [r EXCEPT !.pc = "done"]]
            /\ UNCHANGED << containers, store, page >>

\* verifyNumeric, line 132-147
NumericVerified(i, o) ==
    LET r == runs[i] IN
    /\ r.kind = "numeric" /\ r.pc = "verify"
    /\ o \in VerifyOutcomes(r)
    /\ bindFails' = Failed(o)
    /\ page' = (IF o = "ok" THEN Adopt(r, r.saved)
                ELSE IF o \in {"404", "throw"} THEN Adopt(r, Null)
                ELSE page)
    /\ runs' = [runs EXCEPT ![i] = [r EXCEPT !.pc = "done", !.got = o]]
    /\ UNCHANGED << store, containers >>

\* The meeting is deleted on the server by someone else.
RemoteDelete ==
    /\ StoredId \in containers
    /\ bindFails < MaxBindFail
    /\ containers' = containers \ {StoredId}
    /\ bindFails' = bindFails + 1
    /\ UNCHANGED << store, page, runs >>

\* =================================================================== claims
Max(S) == CHOOSE x \in S : \A y \in S : y <= x

\* Attempts that target block f.
AttemptsOn(f) == {a \in DOMAIN atts : atts[a].id = f}

InFlight(a) == {m \in net : m.att = a}

\* A debounce timer is consumed in this step (it fired or was flushed).
TimerConsumed == \E i \in DOMAIN inst : inst[i].t /\ ~inst'[i].t

\* Attempt a ends in this step with result res.
Ends(a, res) == atts[a].pc # "done" /\ atts'[a].pc = "done" /\ atts'[a].res = res

\* C1 (as claimed): the content changes of one debounce window start at most
\* one save, and once the timers have run out the save routine has run with
\* the content of the last change.
C1_DebounceCollapsing ==
    (burst.clean /\ burst.n >= 1) =>
        /\ burst.started <= 1
        /\ (Quiescent /\ ~NeedRender) => (burst.runs >= 1 /\ burst.last = content)

\* C2 (as claimed): an attempt whose PATCH was rejected with 409 carrying
\* current version v has issued, when it ends, exactly one retry PATCH, with
\* expected version v.
C2_Original ==
    \A a \in DOMAIN atts :
        (atts[a].conflict /\ atts[a].pc = "done") =>
            (atts[a].retries = 1 /\ atts[a].retryVer = atts[a].cur409)

\* C2 (amended): after a 409 the attempt reads the block again; it issues a
\* retry PATCH only after that read succeeded, at most once, with the version
\* the read returned as expected version; after the read failed or the retry
\* was answered the attempt has nothing in flight and issues nothing more.
C2_ConflictRecovery ==
    \A a \in DOMAIN atts :
        /\ atts[a].retries <= 1
        /\ atts[a].retries = 1 =>
              (atts[a].conflict /\ atts[a].readVer # Null
               /\ atts[a].retryVer = atts[a].readVer)
        /\ (atts[a].readVer # Null) => atts[a].retries = 1
        /\ \A m \in InFlight(a) :
              (m.kind = "retry" /\ m.stage = "req") => m.ver = atts[a].readVer
        /\ atts[a].pc = "done" => InFlight(a) = {}

\* C2 witness: a retry was issued with the version read, and was rejected.
C2_Witness ==
    \E a \in DOMAIN atts :
        /\ atts[a].conflict /\ atts[a].retries = 1
        /\ atts[a].retryVer = atts[a].readVer
        /\ atts[a].pc = "done" /\ atts[a].res = "error"

\* C3 (as claimed): the versions the controller stores for one block never
\* decrease.
C3_VersionMonotone ==
    [][\A f \in DOMAIN vlog : vlog'[f] >= vlog[f]]_vars

\* C4 (as claimed): once every save attempt on a block has completed
\* successfully, the remote content of the block is the content of the attempt
\* that fired last.
C4_SaveOrdering ==
    \A f \in DOMAIN srv :
        (/\ AttemptsOn(f) # {}
         /\ \A a \in AttemptsOn(f) : atts[a].pc = "done" /\ atts[a].res = "saved")
        => srv[f].text = atts[Max(AttemptsOn(f))].html

\* C5 (as claimed): at most one save attempt is in flight per block.
C5_Original ==
    \A f \in DOMAIN srv :
        Cardinality({a \in AttemptsOn(f) : atts[a].pc # "done"}) <= 1

\* C5 (amended): attempts are not serialized, but each attempt has at most one
\* remote request outstanding: exactly the call it is waiting for while it
\* runs, none once it has ended.
C5_OneRequestPerAttempt ==
    \A a \in DOMAIN atts :
        IF atts[a].pc = "done" THEN InFlight(a) = {}
        ELSE \E m \in net : InFlight(a) = {m} /\ m.kind = atts[a].pc

\* C5 witness: two attempts on the same block, started by different firings
\* (they carry different contents), are in flight with one request each.
C5_Witness ==
    \E a, b \in DOMAIN atts :
        /\ a # b /\ atts[a].id # Null /\ atts[a].id = atts[b].id
        /\ atts[a].html # atts[b].html
        /\ atts[a].pc # "done" /\ atts[b].pc # "done"
        /\ Cardinality(InFlight(a)) = 1 /\ Cardinality(InFlight(b)) = 1

\* C6: when the response of a successful PATCH (first or retry) is delivered,
\* the stored version becomes the version the server returned and the status
\* becomes saved.
C6_StoredVersion ==
    [][\A m \in net :
          (m.stage = "resp" /\ IsPatch(m.kind) /\ m.status = 200 /\ m \notin net')
          => (version' = m.ver /\ saveStatus' = "saved")]_vars

\* C6 witness: expected version 1, 409 with current version 3, read returns 3,
\* the retry succeeds and the stored version is 4.
C6_Witness ==
    \E a \in DOMAIN atts :
        /\ atts[a].ver = 1 /\ atts[a].cur409 = 3 /\ atts[a].readVer = 3
        /\ atts[a].res = "saved"
        /\ version = 4 /\ saveStatus = "saved"

\* Scenario A: the document has no block yet, the meeting is known from the
\* start, no remote call fails, every edit is made while no save is in
\* flight, and the first save carries "a".
ScenarioA ==
    /\ inst[1].cp /\ inst[1].cm # Null /\ inst[1].cb = Null
    /\ nFail = 0 /\ burst.calm
    /\ Len(atts) >= 1 /\ atts[1].html = Doc(1)

\* The saves of the second edit ("ab") that succeeded on the block of the
\* first save.
SecondSaved ==
    {a \in DOMAIN atts : a > 1 /\ atts[a].id = 1 /\ atts[a].html = Doc(2)
                         /\ atts[a].res = "saved"}

\* C7 (as claimed): the first save leaves remote version 1; once a save of
\* the second edit has succeeded the remote state is version 2, content "ab".
C7_Original ==
    ScenarioA =>
        /\ (Len(atts) = 1 /\ atts[1].res = "saved") => srv[1].ver = 1
        /\ (nEdits = 2 /\ SecondSaved # {}) => srv[1] = [ver |-> 2, text |-> Doc(2)]

\* C7 (amended): the first save creates the block (version 1) and then
\* updates it, so it succeeds leaving remote version 2 with content "a";
\* once a save of the second edit has succeeded the remote content is "ab"
\* and the remote version is at least 3.
C7_ScenarioA ==
    ScenarioA =>
        /\ (Len(atts) = 1 /\ atts[1].pc = "done") =>
              (/\ atts[1].res = "saved" /\ atts[1].created
               /\ srv[1] = [ver |-> 2, text |-> Doc(1)])
        /\ (nEdits = 2 /\ SecondSaved # {}) =>
              (srv[1].text = Doc(2) /\ srv[1].ver >= 3)

\* C7 witness: both saves of the scenario have succeeded.
C7_Witness ==
    /\ ScenarioA /\ nEdits = 2 /\ SecondSaved # {}
    /\ atts[1].res = "saved"
    /\ srv[1] = [ver |-> 3, text |-> Doc(2)]

\* Attempt a ends in this step by a failed recovery round.
RecoveryFails(a) == atts[a].conflict /\ Ends(a, "error")

\* C8 (as claimed): when the recovery round of an attempt fails, the status
\* is error and blockId and version are what they were when the attempt
\* started.
C8_Original ==
    [][\A a \in DOMAIN atts :
          RecoveryFails(a) =>
              (/\ saveStatus' = "error"
               /\ blockId' = atts[a].id0 /\ version' = atts[a].ver0)]_vars

\* C8 (amended): no step of a recovery round that does not end in a
\* successful retry writes blockId or version (the 409, the read, the failed
\* read or retry leave them as they are), and a failed round sets the status
\* to error.
C8_RecoveryFrame ==
    [][\A a \in DOMAIN atts :
          /\ (atts'[a].conflict /\ atts'[a] # atts[a] /\ atts'[a].res # "saved")
                => (blockId' = blockId /\ version' = version)
          /\ RecoveryFails(a) => saveStatus' = "error"]_vars

\* C8 witness: an attempt that had created its block ended by a failed
\* recovery round.
C8_Witness ==
    \E a \in DOMAIN atts :
        /\ atts[a].conflict /\ atts[a].pc = "done" /\ atts[a].res = "error"
        /\ atts[a].created /\ blockId # atts[a].id0
        /\ saveStatus = "error"

\* C9 (as claimed): an attempt that ended after one of its remote calls
\* failed with 404 or 405 has set the latch.
C9_LatchSet ==
    \A a \in DOMAIN atts : (atts[a].pc = "done" /\ atts[a].gone) => serverDown

\* C10: the latch is never cleared, and a debounce timer consumed while the
\* latch is set issues no request and starts no attempt.
C10_LatchOneWay ==
    [][serverDown =>
          (/\ serverDown'
           /\ TimerConsumed => (net' = net /\ atts' = atts))]_vars

\* C10 witness: with the latch set, a run of a save routine that persists
\* has returned at once.
C10_Witness == serverDown /\ burst.skipped /\ persist

\* Attempt a has ended on a remote failure none of whose calls was answered
\* 404 or 405 (a 5xx, a broken call, a 409 whose recovery failed otherwise).
OtherFailure(a) ==
    atts[a].pc = "done" /\ atts[a].res = "error" /\ atts[a].remote /\ ~atts[a].gone

\* A request of a save routine is issued in this step.
SaveIssued == \E m \in net' \ net : m.stage = "req" /\ m.kind \in {"create", "patch"}

\* C11: an attempt that ends on a failure other than 404 / 405 sets the
\* status to error and leaves the latch as it is; and when, after such a
\* failure and with the latch unset, the debounce timer of the current
\* saveToServer is consumed, a save request is issued again.
C11_OtherFailure ==
    [][/\ \A a \in DOMAIN atts :
             (Ends(a, "error") /\ atts'[a].remote /\ ~atts'[a].gone) =>
                 (saveStatus' = "error" /\ serverDown' = serverDown)
       /\ (/\ \E a \in DOMAIN atts : OtherFailure(a)
           /\ ~serverDown /\ Last(inst).cp
           /\ Last(inst).t /\ ~inst'[Len(inst)].t) => SaveIssued]_vars

\* C11 witness: the save of the first edit failed on a 5xx or an unrecovered
\* 409, the latch is unset, and the save of the second edit, fired after that
\* failure, has a request in flight.
C11_Witness ==
    /\ burst.calm /\ ~serverDown
    /\ \E a, b \in DOMAIN atts :
          /\ atts[a].html = Doc(1) /\ OtherFailure(a)
          /\ atts[b].html = Doc(2) /\ InFlight(b) # {}

\* Every debounce that is about to run was built by a render that knew
\* neither a block id nor the meeting id.
NothingKnown ==
    \A i \in DOMAIN inst : inst[i].t => (inst[i].cb = Null /\ inst[i].cm = Null)

\* C12: when a debounce timer is consumed and the saveToServer it runs knows
\* no block id and no meeting id, no create and no PATCH request is issued,
\* blockId and version stay as they are, and every attempt started has
\* ended at once with an error.
C12_UnknownMeeting ==
    [][(TimerConsumed /\ NothingKnown) =>
          (/\ ~SaveIssued
           /\ blockId' = blockId /\ version' = version
           /\ \A a \in DOMAIN atts' \ DOMAIN atts :
                 atts'[a].pc = "done" /\ atts'[a].res = "error")]_vars

\* C12 witness: persisting is on, no block and no meeting are known, and an
\* attempt was aborted without any remote call.
C12_Witness ==
    /\ persist /\ meeting = Null /\ blockId = Null /\ version = Null
    /\ net = {} /\ saveStatus = "error"
    /\ \E a \in DOMAIN atts :
          atts[a].pc = "done" /\ atts[a].res = "error" /\ ~atts[a].remote

\* C13 (as claimed): a known block id comes with a known version (read here
\* in the claim's favour: while the controller persists and once the initial
\* read of the version has been answered), and every first PATCH of an
\* attempt carries, when it is sent, the version the controller holds.
C13_KnownVersion ==
    /\ []((/\ persist /\ blockId # Null /\ ~NeedRender
            /\ ~\E m \in net : m.kind = "init") => version # Null)
    /\ [][\A m \in net' \ net :
             (m.stage = "req" /\ m.kind = "patch") => m.ver = version']_vars

\* C14 (as claimed): a create request is only issued while no block id is
\* held, and at most one block exists for the editor: the one named by the
\* document id, or else the one created by the first save.
C14_LazyCreation ==
    /\ Len(srv) <= 1
    /\ \A m \in net : (m.kind = "create" /\ m.stage = "req") => atts[m.att].id0 = Null

\* C15: when the Editor is torn down with a debounced call pending, flush
\* runs the save routine once, with the argument of the latest call, and
\* cancels the timer; with nothing pending it changes nothing.  No call of the
\* debounced function is executed twice: the save routine never runs more
\* often than the debounced function was called.
C15_Flush ==
    [][/\ (ed.mounted /\ ~ed'.mounted) =>
            IF deb.t # Null
            THEN /\ hist'.saves = hist.saves + 1
                 /\ hist'.saveArg = deb.lastArgs[1]
                 /\ deb' = [t |-> Null, lastArgs |-> NoArgs]
            ELSE hist' = hist /\ deb' = deb /\ ind' = ind
       /\ hist'.saves <= hist'.fnN]_<< vars, tvars, rvars, svars, bvars >>

\* C15 witness: the Editor was torn down before the wait of the debounce had
\* elapsed and the pending edit has been passed to the save routine.
C15_Witness ==
    /\ ~ed.mounted /\ ed.n = 1 /\ clock < ThrottleMs + SAVE_DEBOUNCE_MS
    /\ hist.saves = 1 /\ hist.saveArg = Doc(1)
    /\ deb.t = Null

\* The editor emits an update in this step.
UpdateStep == ed'.n = ed.n + 1

\* Less than ThrottleMs have passed since fn was last executed.
InInterval == hist.fnN > 0 /\ clock - hist.fnAt < ThrottleMs

\* C16: a call of the throttled function outside the interval executes fn at
\* once; a call inside the interval executes nothing and leaves one trailing
\* timer at the boundary; the trailing execution happens at the boundary,
\* once, with the arguments of the latest call; two executions of fn are
\* never less than ThrottleMs apart.
C16_Throttle ==
    [][/\ (UpdateStep /\ ~InInterval) =>
             (/\ hist'.fnN = hist.fnN + 1 /\ hist'.fnAt = clock
              /\ hist'.fnArg = hist'.calls /\ thr'.tid = Null)
       /\ (UpdateStep /\ InInterval) =>
             (/\ hist'.fnN = hist.fnN
              /\ thr'.tid = hist.fnAt + ThrottleMs /\ thr'.args = hist'.calls)
       /\ (~UpdateStep /\ hist'.fnN # hist.fnN) =>
             (/\ hist.late >= 1 /\ hist'.fnN = hist.fnN + 1
              /\ clock = hist.fnAt + ThrottleMs
              /\ hist'.fnArg = hist.calls /\ thr'.tid = Null)
       /\ hist'.late >= 1 => thr'.tid = hist'.fnAt + ThrottleMs
       /\ hist'.gapOK]_<< vars, tvars, rvars, svars, bvars >>

\* C16 witness: fn ran at once on the first call, two more calls came inside
\* the interval, and fn ran once more, at the boundary, with the arguments of
\* the third call.
C16_Witness ==
    /\ hist.calls = 3 /\ hist.fnN = 2 /\ hist.late = 0
    /\ hist.fnAt = 2 * ThrottleMs /\ hist.fnArg = 3

\* C17 (as claimed): while the Editor is mounted, an indicator showing saved
\* or error does not outlive its 2 s window (a save that starts in between
\* shows saving).
C17_IndicatorReverts ==
    (ed.mounted /\ ind.status \in {"saved", "error"}) => clock <= ind.since + IdleMs

\* C18: the status of the capture session moves only along Idle -> Capturing
\* <-> Paused -> Finalizing -> Idle; in particular no click and no event takes
\* a mounted panel whose recognition was started from Finalizing ("processing")
\* to Capturing ("rec").
C18_StateMachine ==
    [][(panel.mounted /\ panel.mic = "granted" /\ recStatus = "processing")
           => recStatus' # "rec"]_rvars

ResultStep == budget'.results = budget.results + 1

HasFinal(batch) == \E i \in DOMAIN batch : batch[i].isFinal

\* C19: the utterance buffer only grows at its end: a result event with final
\* alternatives appends exactly one segment (and clears the partial value), a
\* result event with interim alternatives only leaves the buffer alone and
\* overwrites the partial value, and no other step (pause, resume, stop, poll
\* cycle, answer of the server, timer) changes the buffer.
C19_AppendOnly ==
    [][/\ Len(finals') >= Len(finals)
       /\ SubSeq(finals', 1, Len(finals)) = finals
       /\ ResultStep =>
            \E batch \in Batches :
                IF HasFinal(batch)
                THEN /\ Len(finals') = Len(finals) + 1
                     /\ panel.mounted => partial' = << >>
                ELSE /\ finals' = finals
                     /\ panel.mounted =>
                            partial' = Join([i \in DOMAIN batch |-> batch[i].transcript],
                                            << >>)
       /\ ~ResultStep => (finals' = finals /\ partial' = partial)]_rvars

\* Two result events arrived with a pause between them: the first segment is
\* still the first, the batch with two final alternatives added one segment.
C19_Witness ==
    /\ Len(finals) = 2
    /\ finals[1] = << "a" >>
    /\ finals[2] = << "a", " ", "b" >>
    /\ budget.clicks = 1
    /\ recStatus = "pause"

ErrorStep == budget'.errors = budget.errors + 1

RestartStep == Len(recog'.timers) < Len(recog.timers)

\* C20: a recoverable error (no-speech, audio-capture, aborted) raised while
\* the mounted panel is Capturing leaves the status "rec" and arms one timer for
\* RestartMs later; when that timer fires, exactly RestartMs after the error,
\* it starts the recognizer without touching the status, and a recognizer that
\* was still ending is started by its end event while the session runs.
C20_AutoRestart ==
    [][/\ (ErrorStep /\ panel.mounted /\ recStatus = "rec"
              /\ recog'.err \in RecoverableErrors)
            => /\ recStatus' = "rec"
               /\ running'
               /\ recog'.timers = Append(recog.timers, panel.now + RestartMs)
       /\ RestartStep
            => /\ panel.now = Head(recog.timers)
               /\ recStatus' = recStatus
               /\ recog.st # "ending" => recog'.st = "on"
       /\ (recog.st = "ending" /\ recog'.st # "ending" /\ running) => recog'.st = "on"]_rvars

\* An audio-capture error at time 0 while Capturing; RestartMs later the
\* timer has fired, recognition is on and the panel still shows "rec".
C20_Witness ==
    /\ recog.err = "audio-capture"
    /\ recStatus = "rec"
    /\ budget.clicks = 0
    /\ recog.st = "on"
    /\ recog.timers = << >>
    /\ panel.now = RestartMs

\* C21: the handler of a not-allowed error clears runningRef, stops the
\* recognizer, arms no restart timer and shows "pause"; while runningRef stays
\* clear the end handler leaves the recognizer off, so that after the denial
\* only a click of the user or a timer armed by an earlier error starts it.
C21_PermissionDenied ==
    [][/\ (ErrorStep /\ recog'.err = "not-allowed")
            => /\ ~running'
               /\ recog'.st # "on"
               /\ recog'.timers = recog.timers
               /\ panel.mounted => recStatus' = "pause"
       /\ (recog.st = "ending" /\ recog'.st # "ending" /\ ~running) => recog'.st = "off"
       /\ (recog.err = "not-allowed" /\ ~running /\ recog.st # "on" /\ recog'.st = "on")
            => (budget'.clicks = budget.clicks + 1 \/ RestartStep)]_rvars

\* After a not-allowed error the end event has been delivered: the panel is
\* Paused and the recognizer is off.
C21_Witness ==
    /\ panel.mounted
    /\ recog.err = "not-allowed"
    /\ recStatus = "pause"
    /\ ~running
    /\ recog.st = "off"
    /\ budget.clicks = 0

Click == budget'.clicks = budget.clicks + 1

\* The pause branch and the resume branch of the toggle.
PauseStep == Click /\ recog.obj /\ recStatus = "rec" /\ recStatus' = "pause" /\ out' = out

ResumeStep == Click /\ recog.obj /\ recStatus = "pause" /\ recStatus' = "rec"

\* One cycle of the poller has run in this step: a live fetch was sent (remote
\* mode), the segments since the boundary were summarised (local mode).
CycleRan ==
    IF panel.api
    THEN /\ jobs' = Append(jobs, [kind |-> "live"])
         /\ poll'.loading
    ELSE /\ poll'.lastIdx = Len(finals)
         /\ Len(poll'.history) = Len(poll.history) + (IF Len(finals) > poll.lastIdx THEN 1 ELSE 0)

NoCycle ==
    /\ poll'.lastIdx = poll.lastIdx
    /\ poll'.timer = poll.timer
    /\ \A i \in DOMAIN jobs' : i > Len(jobs) => jobs'[i].kind # "live"

\* C22: the pause click clears runningRef, stops the recognizer and clears the
\* interval timer, and while no timer is set no cycle runs except by a resume
\* click or the start of the session; the resume click sets runningRef, starts
\* the recognizer (one that is still ending is started by its end event), runs
\* one cycle at once, arms the interval for PollMs later and sets the anchor
\* of the utterance timing to the instant of the click.
C22_PauseResume ==
    [][/\ PauseStep => (~running' /\ recog'.st # "on" /\ poll'.timer = Null)
       /\ (poll.timer = Null /\ ~(Click /\ recStatus # "rec") /\ panel'.mic = panel.mic)
            => NoCycle
       /\ ResumeStep
            => /\ running'
               /\ recog'.st = (IF recog.st = "off" THEN "on" ELSE recog.st)
               /\ CycleRan
               /\ poll'.timer = panel.now + PollMs
               /\ recog'.anchor = panel.now]_rvars

\* A session that started at time 0 was paused and resumed RestartMs later:
\* the anchor and the interval are counted from the resume.
C22_Witness ==
    /\ budget.clicks = 2
    /\ recStatus = "rec"
    /\ running
    /\ recog.st = "on"
    /\ recog.anchor = RestartMs
    /\ poll.timer = RestartMs + PollMs
    /\ out.finished = << >>
    /\ \A i \in DOMAIN jobs : jobs[i].kind = "live"

\* A click on Stop or Close: finalizeMeeting was entered.
StopStep ==
    /\ Click
    /\ \/ /\ Len(jobs') = Len(jobs) + 1
          /\ jobs'[Len(jobs')].kind = "finalize"
       \/ Len(out'.finished) = Len(out.finished) + 1

Stopped == ~running /\ recog.st # "on" /\ poll.timer = Null

\* C23: after a click on Stop or Close runningRef is clear, the recognizer is
\* stopped and no interval timer is set, whatever the state before; when
\* capture and polling were already stopped (the panel was Paused, or Stop was
\* clicked before) the click changes nothing of them.
C23_FinalizeStops ==
    [][StopStep =>
          /\ ~running'
          /\ recog'.st # "on"
          /\ poll'.timer = Null
          /\ Stopped => (recog' = recog /\ poll' = poll)]_rvars

\* Stop was clicked twice on a remote session: both finalize runs are in
\* flight, capture and polling are stopped.
C23_Witness ==
    /\ budget.clicks = 2
    /\ Len(jobs) >= 2
    /\ \E i, k \in DOMAIN jobs : i < k /\ jobs[i].kind = "finalize" /\ jobs[k].kind = "finalize"
    /\ recog.obj
    /\ Stopped

SessionStart == panel.mounted /\ panel.mic = "pending" /\ panel'.mic = "granted"

ResumeBranch == Click /\ recog.obj /\ recStatus # "rec" /\ recStatus' = "rec"

PollStep == budget'.polls = budget.polls + 1

\* C24: the start of the session and every resume run one cycle at once and
\* arm the interval for PollMs later; the interval fires at its deadline, runs
\* one cycle and is due again PollMs later; the answer of a live fetch, a
\* failure included, leaves the interval as it is, and time does not pass a
\* deadline of the interval without the cycle.
C24_PollSchedule ==
    [][/\ (SessionStart \/ ResumeBranch)
            => (CycleRan /\ poll'.timer = panel.now + PollMs)
       /\ PollStep
            => (panel.now = poll.timer /\ CycleRan /\ poll'.timer = poll.timer + PollMs)
       /\ (Len(jobs') < Len(jobs) \/ budget'.fails # budget.fails)
            => poll'.timer = poll.timer
       /\ poll.timer # Null => panel'.now <= poll.timer]_rvars

\* The first fetch of a remote session failed; the interval fired on time all
\* the same, its fetch is in flight and the next cycle is due PollMs later.
C24_Witness ==
    /\ panel.api
    /\ budget.clicks = 0
    /\ budget.fails = 1
    /\ budget.polls = 1
    /\ panel.now = PollMs
    /\ poll.timer = 2 * PollMs
    /\ jobs = << [kind |-> "live"] >>
    /\ poll.loading
    /\ poll.history = << >>

\* C25: in remote mode no two adjacent entries of the history have the same
\* trimmed text, and a live text that arrives is appended exactly when its
\* trimmed text differs from that of the last entry.
C25_Dedupe ==
    /\ [](panel.api =>
            \A i \in DOMAIN poll.history :
                i > 1 => Trim(poll.history[i - 1]) # Trim(poll.history[i]))
    /\ [][poll'.seen = poll.seen + 1 =>
            poll'.history =
                IF poll.history # << >>
                      /\ Trim(poll.history[Len(poll.history)]) = Trim(poll'.latest)
                THEN poll.history
                ELSE Append(poll.history, poll'.latest)]_rvars

\* Two cycles of a remote session answered the same text up to white space:
\* the history has one entry.
C25_Witness ==
    /\ panel.api
    /\ poll.seen = 2
    /\ poll.history = << << "a" >> >>
    /\ poll.latest = << "a" >>

\* C26: in local mode every cycle of the interval of a capturing session
\* appends exactly one snapshot
\* to the history, also when no segment arrived since the boundary, and moves
\* the boundary to the end of the buffer.
C26_LocalSnapshot ==
    [][(~panel.api /\ panel.mounted /\ running /\ PollStep)
           => /\ Len(poll'.history) = Len(poll.history) + 1
              /\ poll'.lastIdx = Len(finals)]_rvars

LiveFailed ==
    /\ budget'.fails = budget.fails + 1
    /\ \E i \in DOMAIN jobs : jobs[i].kind = "live" /\ jobs' = Without(jobs, i)

\* C27: a live fetch that fails leaves the latest snapshot and the history as
\* they were, and when there is no snapshot yet the card shows a failure
\* message, not the line of a summary that is still awaited.
C27_FailedFetch ==
    [][(panel.mounted /\ LiveFailed)
           => /\ poll'.latest = poll.latest
              /\ poll'.history = poll.history
              /\ poll.latest = << >> => LiveShown(poll') # WaitingFirst]_rvars

\* The segments finalizeMeeting holds for the k-th result, joined by newlines.
LocalTranscript(k) == Join(out.how[k].snap.finals, << "\n" >>)

\* C28: when a step of the remote finalize sequence failed, the transcript of
\* the result is the newline join of the utterance segments of the session.
C28_FallbackTranscript ==
    \A k \in DOMAIN out.finished :
        (out.how[k].failed # {} /\ out.how[k].snap.finals # << >>)
            => out.finished[k].transcript = LocalTranscript(k)

\* C29: when GET minutes/final of the remote finalize sequence failed and no
\* summary existed before, the summary of the result is the local summarizer
\* applied to the locally composed transcript.
C29_FallbackSummary ==
    \A k \in DOMAIN out.finished :
        ("get" \in out.how[k].failed /\ out.how[k].snap.summary = << >>)
            => out.finished[k].summary = simpleSummarize(LocalTranscript(k), DefaultMaxLines)

\* C30: without a numeric meeting id no remote call is ever in flight and no
\* chunk is posted; every click on Stop or Close hands over one result at
\* once, composed from the buffer as it is at the click: the transcript is the
\* newline join of the segments, the summary is simpleSummarize of that
\* transcript.
C30_LocalFinalize ==
    /\ [](~panel.api =>
            /\ jobs = << >>
            /\ out.chunks = << >>
            /\ \A k \in DOMAIN out.finished :
                  /\ out.how[k].failed = {}
                  /\ out.finished[k].transcript = LocalTranscript(k)
                  /\ out.finished[k].summary = simpleSummarize(LocalTranscript(k), DefaultMaxLines))
    /\ [][(~panel.api /\ StopStep)
             => /\ Len(out'.finished) = Len(out.finished) + 1
                /\ out'.how[Len(out'.how)].snap.finals = finals]_rvars

\* The segments "a" and "a b" give the transcript "a\na b" and the summary
\* "- a a b".
C30_Witness ==
    /\ ~panel.api
    /\ finals = << << "a" >>, << "a", " ", "b" >> >>
    /\ Len(out.finished) = 1
    /\ out.finished[1].transcript = << "a", "\n", "a", " ", "b" >>
    /\ out.finished[1].summary = << "-", " ", "a", " ", "a", " ", "b" >>

\* The lines of a text
RECURSIVE SplitLines(_, _)
SplitLines(t, cur) ==
    IF t = << >> THEN << cur >>
    ELSE IF Head(t) = "\n" THEN << cur >> \o SplitLines(Tail(t), << >>)
    ELSE SplitLines(Tail(t), Append(cur, Head(t)))

SumSents == Sentences(Trim(Squeeze(sumRaw)))
SumLines == IF sumResult.text = << >> THEN << >> ELSE SplitLines(sumResult.text, << >>)

\* The occurrences of counted words in the whole text and the score of the
\* j-th sentence: one for every pair of a word of the sentence and an
\* occurrence of the same word anywhere in the text.
WordOccurrences ==
    { o \in (DOMAIN SumSents) \X (1..MaxLen) : o[2] \in DOMAIN Keys(SumSents[o[1]]) }
WordAt(o) == Keys(SumSents[o[1]])[o[2]]
SentenceScore(j) ==
    Cardinality({ pr \in WordOccurrences \X WordOccurrences :
                    pr[1][1] = j /\ WordAt(pr[1]) = WordAt(pr[2]) })

\* C31: the result of simpleSummarize(raw, N) has at most N lines; the lines
\* are bullets of different sentences of the text, in non-increasing order of
\* score, and of two sentences of the same score the earlier one comes first.
C31_Summarizer ==
    sumResult.done =>
        /\ Len(SumLines) <= sumMaxLines
        /\ \E p \in [DOMAIN SumLines -> DOMAIN SumSents] :
              /\ \A i \in DOMAIN SumLines : SumLines[i] = << "-", " " >> \o SumSents[p[i]]
              /\ \A i, j \in DOMAIN SumLines : i < j =>
                    \/ SentenceScore(p[i]) > SentenceScore(p[j])
                    \/ SentenceScore(p[i]) = SentenceScore(p[j]) /\ p[i] < p[j]

\* "a. . b" with N = 2: the sentences "a." and "b" have score 1 and "." has
\* score 0, so "b" overtakes ".", stays behind "a." and "." is cut off.
C31_Witness ==
    /\ sumRaw = << "a", ".", " ", ".", " ", "b" >>
    /\ sumMaxLines = 2
    /\ sumResult.done
    /\ sumResult.text = << "-", " ", "a", ".", "\n", "-", " ", "b" >>

\* The verification of run i is answered o in this step.
VerifyAnswer(i, o) ==
    /\ runs[i].kind = "doc" /\ runs[i].pc = "verify"
    /\ runs'[i].got = o

\* The create request of run i is answered with a new meeting in this step.
CreateAnswer(i) ==
    /\ runs[i].kind = "doc" /\ runs[i].pc = "create" /\ runs'[i].pc = "done"
    /\ containers' # containers

\* C32: a 404 on the verification of the stored binding removes the binding
\* from the persisted map and sends the create request in the same run; when
\* that request succeeds the new meeting is bound and, unless the run was
\* aborted, adopted.  A 200 adopts the stored id (unless aborted), leaves the
\* map alone and ends the run without any create request.
C32_Eviction ==
    /\ [](\A i \in DOMAIN runs : runs[i].got = "ok" =>
              runs[i].pc = "done" /\ ~runs[i].posted)
    /\ [][\A i \in DOMAIN runs :
            /\ VerifyAnswer(i, "404") =>
                  /\ store' = Null
                  /\ runs'[i].pc = "create" /\ runs'[i].posted
            /\ (CreateAnswer(i) /\ runs[i].got = "404") =>
                  /\ store' \in containers' \ containers
                  /\ store' # runs[i].saved
                  /\ (~runs[i].aborted => page'.meetingId = store')
            /\ VerifyAnswer(i, "ok") =>
                  /\ store' = store /\ containers' = containers
                  /\ (~runs[i].aborted => page'.meetingId = runs[i].saved)]_bvars

\* The stored meeting is gone: one run has evicted the binding, created the
\* meeting 2, bound and adopted it.
C32_Witness ==
    /\ Len(runs) = 1
    /\ runs[1].got = "404" /\ runs[1].pc = "done"
    /\ containers = {StoredId + 1}
    /\ store = StoredId + 1
    /\ page.meetingId = StoredId + 1

\* C34: a run that found a stored binding sends a create request only after
\* its verification was answered 404; a verification that fails otherwise
\* (another status, no answer) sends none and leaves the binding as it is.
C34_KeepBinding ==
    /\ [](\A i \in DOMAIN runs :
              (runs[i].kind = "doc" /\ runs[i].saved # Null /\ runs[i].posted)
                  => runs[i].got = "404")
    /\ [][\A i \in DOMAIN runs :
              (VerifyAnswer(i, "500") \/ VerifyAnswer(i, "throw"))
                  => store' = store /\ ~runs'[i].posted]_bvars

\* C33: every result handed to onFinish carries the memo as notes, and the
\* Editor inserts the notes into the document when they are not blank.
C33_Notes ==
    \A k \in DOMAIN out.finished :
        /\ out.finished[k].notes = out.how[k].snap.memo
        /\ Trim(out.finished[k].notes) # << >>
              => out.inserted[k].memo = out.finished[k].notes

AllDone == \A i \in DOMAIN runs : runs[i].pc = "done"

\* C35: of a run and the run that replaced it while it was in flight at most
\* one sends a create request, and once all runs have ended the persisted
\* binding is the meeting the mounted page has adopted.
C35_OverlappingRuns ==
    /\ \A j \in DOMAIN runs :
          (runs[j].kind = "doc" /\ runs[j].overlap)
              => ~(runs[j - 1].posted /\ runs[j].posted)
    /\ (/\ ~page.numeric /\ page.mounted /\ AllDone
        /\ \E j \in DOMAIN runs : runs[j].overlap)
          => store = page.meetingId

\* C36: onFinish is called at most once in the life of one panel; stated for
\* the panel as the Editor mounts it (with a meeting id) and for as long as it
\* has not asked to be closed.
C36_FinishOnce == (panel.api /\ out.closed = 0) => Len(out.finished) <= 1

\* The recognizer goes from stopped or stopping to started in this step.
StartStep == recog.st # "on" /\ recog'.st = "on"

\* C37: the recognizer is only started in a step that leaves the running flag
\* set.
C37_StartOnlyRunning == [][StartStep => running']_rvars

\* C38: once the microphone is granted in a browser with speech recognition,
\* a mounted panel shows "rec" exactly when the running flag is set, and the
\* interval timer of the live summary is only armed while it shows "rec".
C38_StatusRunning ==
    (panel.mounted /\ panel.sr /\ panel.mic = "granted") =>
        /\ (recStatus = "rec") <=> running
        /\ poll.timer # Null => recStatus = "rec"

\* The local cycles whose input held the i-th segment.
CyclesOver(i) == { k \in DOMAIN poll.cuts : poll.cuts[k].from <= i /\ i <= poll.cuts[k].to }

\* C39: the boundary of the local live summary never moves back and never
\* passes the end of the buffer; every segment below the boundary was the
\* input of exactly one cycle and no segment above it of any; a cycle takes
\* all segments from the boundary to the end of the buffer and its snapshot is
\* the summary of exactly these.
C39_LocalBoundary ==
    /\ [](/\ poll.lastIdx <= Len(finals)
          /\ \A i \in 1..Len(finals) :
                Cardinality(CyclesOver(i)) = (IF i <= poll.lastIdx THEN 1 ELSE 0))
    /\ [][/\ poll'.lastIdx >= poll.lastIdx
          /\ poll'.cuts # poll.cuts =>
                LET cut == poll'.cuts[Len(poll'.cuts)]
                    sum == simpleSummarize(Join(SubSeq(finals, cut.from, cut.to), << " " >>),
                                           DefaultMaxLines)
                IN  /\ poll'.cuts = Append(poll.cuts, cut)
                    /\ cut.from = poll.lastIdx + 1
                    /\ cut.to = Len(finals)
                    /\ poll'.lastIdx = Len(finals)
                    /\ panel.mounted => poll'.history = Append(poll.history, sum)]_rvars

\* Two segments, each summarized by a cycle of its own.
C39_Witness ==
    /\ ~panel.api
    /\ Len(finals) = 2
    /\ poll.lastIdx = 2
    /\ poll.cuts = << [from |-> 1, to |-> 1], [from |-> 2, to |-> 2] >>
    /\ Len(poll.history) = 2

\* One of the 2 s timers fires in this step.
IdleTimerFires == ind'.timers # ind.timers /\ ind'.timers \subseteq ind.timers

\* C40: a 2 s timer that fires while a save is running and the indicator shows
\* saving leaves the indicator on saving.
C40_TimerKeepsSaving ==
    [][(ed.mounted /\ IdleTimerFires /\ ind.running > 0 /\ ind.status = "saving")
           => ind'.status = "saving"]_tvars

\* The autosave controller against the remote store; the timed model rests.
Next ==
    \/ Change /\ UNCHANGED << tvars, rvars, svars, bvars >>
    \/ PropsChange /\ UNCHANGED << tvars, rvars, svars, bvars >>
    \/ Render /\ UNCHANGED << tvars, rvars, svars, bvars >>
    \/ Elapse120 /\ UNCHANGED << tvars, rvars, svars, bvars >>
    \/ DebounceFire /\ UNCHANGED << tvars, rvars, svars, bvars >>
    \/ \E m \in net : ServerHandle(m) /\ UNCHANGED << tvars, rvars, svars, bvars >>
    \/ \E m \in net, s \in FailStatus : ServerFail(m, s) /\ UNCHANGED << tvars, rvars, svars, bvars >>
    \/ \E m \in net : DeliverCreate(m) /\ UNCHANGED << tvars, rvars, svars, bvars >>
    \/ \E m \in net : DeliverPatch(m) /\ UNCHANGED << tvars, rvars, svars, bvars >>
    \/ \E m \in net : DeliverReread(m) /\ UNCHANGED << tvars, rvars, svars, bvars >>
    \/ \E m \in net : DeliverRetry(m) /\ UNCHANGED << tvars, rvars, svars, bvars >>
    \/ \E m \in net : DeliverInit(m) /\ UNCHANGED << tvars, rvars, svars, bvars >>

Spec == Init /\ [][Next]_<< vars, tvars, rvars, svars, bvars >>

\* The timed model starts with the controller mounted on a new document, the
\* meeting known; the controller's own variables rest.
EditorAtRest ==
    /\ persist = TRUE /\ meeting = MeetingId
    /\ blockId = Null /\ version = Null
    /\ saveStatus = "idle" /\ serverDown = FALSE
    /\ content = Doc(0) /\ nEdits = 0
    /\ inst = << NewInst([cp |-> TRUE, cb |-> Null, cv |-> Null, cm |-> MeetingId]) >>
    /\ atts = << >> /\ net = {} /\ srv = << >> /\ nFail = 0
    /\ burst = [n |-> 0, runs |-> 0, started |-> 0, last |-> "", clean |-> TRUE,
                calm |-> TRUE, skipped |-> FALSE]
    /\ vlog = << >>

TimedInit == TimedStart /\ EditorAtRest /\ RecStart(TRUE, TRUE) /\ SumAtRest /\ BindAtRest

TimedNext ==
    \/ Update /\ UNCHANGED << vars, rvars, svars, bvars >>
    \/ ThrottleTimer /\ UNCHANGED << vars, rvars, svars, bvars >>
    \/ DebounceTimer /\ UNCHANGED << vars, rvars, svars, bvars >>
    \/ \E ok \in BOOLEAN : SaveEnds(ok) /\ UNCHANGED << vars, rvars, svars, bvars >>
    \/ IdleTimer /\ UNCHANGED << vars, rvars, svars, bvars >>
    \/ Teardown /\ UNCHANGED << vars, rvars, svars, bvars >>
    \/ \E d \in Steps : Advance(d) /\ UNCHANGED << vars, rvars, svars, bvars >>

TimedSpec == TimedInit /\ [][TimedNext]_<< vars, tvars, rvars, svars, bvars >>

\* The recorder panel is mounted beside a resting editor, with or without a
\* numeric meeting id, in a browser with or without SpeechRecognition.
RecInit ==
    /\ TimedStart
    /\ EditorAtRest
    /\ \E api \in BOOLEAN, sr \in BOOLEAN : RecStart(api, sr)
    /\ SumAtRest
    /\ BindAtRest

RecNext ==
    \/ MicGranted /\ UNCHANGED << vars, tvars, svars, bvars >>
    \/ MicDenied /\ UNCHANGED << vars, tvars, svars, bvars >>
    \/ HandlePauseOrResume /\ UNCHANGED << vars, tvars, svars, bvars >>
    \/ \E close \in BOOLEAN : HandleStop(close) /\ UNCHANGED << vars, tvars, svars, bvars >>
    \/ \E i \in DOMAIN jobs, o \in {"ok", "http", "throw"} :
           FinalizePosted(i, o) /\ UNCHANGED << vars, tvars, svars, bvars >>
    \/ \E i \in DOMAIN jobs, body \in FinalBodies, o \in {"ok", "http", "throw"} :
           FinalizeGot(i, body, o) /\ UNCHANGED << vars, tvars, svars, bvars >>
    \/ \E batch \in Batches : RecResult(batch) /\ UNCHANGED << vars, tvars, svars, bvars >>
    \/ \E e \in RecErrors : RecError(e) /\ UNCHANGED << vars, tvars, svars, bvars >>
    \/ RecEnd /\ UNCHANGED << vars, tvars, svars, bvars >>
    \/ RestartTimer /\ UNCHANGED << vars, tvars, svars, bvars >>
    \/ PollTimer /\ UNCHANGED << vars, tvars, svars, bvars >>
    \/ \E i \in DOMAIN jobs, body \in LiveBodies, thrown \in BOOLEAN :
           LiveAnswered(i, body, thrown) /\ UNCHANGED << vars, tvars, svars, bvars >>
    \/ \E t \in Memos : MemoChange(t) /\ UNCHANGED << vars, tvars, svars, bvars >>
    \/ Unmount /\ UNCHANGED << vars, tvars, svars, bvars >>
    \/ \E d \in RecSteps : RecAdvance(d) /\ UNCHANGED << vars, tvars, svars, bvars >>

RecSpec == RecInit /\ [][RecNext]_<< vars, tvars, rvars, svars, bvars >>

\* ------------------------------------------------- the summarizer alone
\* The texts of at most MaxLen characters over: two words, an upper-case
\* letter, a stop word, a sentence end and white space.
Alphabet == {"a", "A", "b", Deung, ".", " "}
Texts == UNION { [1..n -> Alphabet] : n \in 0..MaxLen }
LineCounts == (0..MaxLines) \cup {DefaultMaxLines}

SumInit ==
    /\ TimedStart
    /\ EditorAtRest
    /\ RecStart(TRUE, TRUE)
    /\ \E raw \in Texts, maxLines \in LineCounts : SumStart(raw, maxLines)
    /\ BindAtRest

Summarize ==
    /\ ~sumResult.done
    /\ sumResult' = [done |-> TRUE, text |-> simpleSummarize(sumRaw, sumMaxLines)]
    /\ UNCHANGED << sumRaw, sumMaxLines >>

SumNext ==
    \/ Summarize /\ UNCHANGED << vars, tvars, rvars, bvars >>

SumSpec == SumInit /\ [][SumNext]_<< vars, tvars, rvars, svars, bvars >>

\* ---------------------------------------------------- the page alone
BindInit ==
    /\ TimedStart
    /\ EditorAtRest
    /\ RecStart(TRUE, TRUE)
    /\ SumAtRest
    /\ \E numeric \in BOOLEAN, st \in {Null, StoredId}, exists \in BOOLEAN :
          /\ (numeric => st = Null)
          /\ BindStart(numeric, st, exists)

BindNext ==
    \/ EffectRerun /\ UNCHANGED << vars, tvars, rvars, svars >>
    \/ PageUnmount /\ UNCHANGED << vars, tvars, rvars, svars >>
    \/ \E i \in DOMAIN runs, o \in {"ok", "404", "500", "throw"} :
           DocVerified(i, o) /\ UNCHANGED << vars, tvars, rvars, svars >>
    \/ \E i \in DOMAIN runs, o \in {"ok", "http", "invalid", "throw"} :
           DocCreated(i, o) /\ UNCHANGED << vars, tvars, rvars, svars >>
    \/ \E i \in DOMAIN runs, o \in {"ok", "404", "500", "throw"} :
           NumericVerified(i, o) /\ UNCHANGED << vars, tvars, rvars, svars >>
    \/ RemoteDelete /\ UNCHANGED << vars, tvars, rvars, svars >>

BindSpec == BindInit /\ [][BindNext]_<< vars, tvars, rvars, svars, bvars >>

====
